---- MODULE Spec2Model ----
(***************************************************************************)
(* The grid-based GameEngine of src/lib/game/engine.ts (the first class of *)
(* the file, lines 46-683), the entity model of src/lib/game/models.ts and *)
(* the socket server of src/unnamed/part_010 that drives the engine.       *)
(*                                                                         *)
(* Numbers.  Positions are integers: the inputs are axis-parallel vectors  *)
(* and whole-number spawn points, so every coordinate the code computes is *)
(* a whole number and the float arithmetic is exact.  distance(a,b) < r is *)
(* compared on squares.  Time is counted in thirds of a millisecond, so    *)
(* that 1000/60 and 1000/30 are whole numbers.                             *)
(*                                                                         *)
(* state.foods is kept run-length encoded: [far |-> n, rest |-> s] is the  *)
(* array of n copies of FarFood followed by the elements of s; array       *)
(* indices are the code's 0-based indices into that array.                 *)
(***************************************************************************)
EXTENDS Integers, Sequences, FiniteSets, TLC

\* ------------------------------------------------------------ constants
FOOD_COUNT == 500
TICK_RATE == (1000 * 3) \div 60
FOOD_SPAWN_INTERVAL == 50 * 3
BORDER_DANGER_ZONE == 30
CELL_SIZE == 100
SERVER_TICK_RATE == (1000 * 3) \div 30
SERVER_WIDTH == 4000
SERVER_HEIGHT == 4000
BOOST_DURATION == 5000 * 3
LEADERBOARD_SIZE == 10

\* ------------------------------------------------------------ bounds
\* snakes ever created in one run, per specification
MaxPlayers == 2
MaxCrowd == 11
\* initial food items that lie near the spawn points (the rest are FarFood)
NearFoods == 12
\* the firings of the server's setInterval a run has
MaxTicks == 2
\* the width and height of the small map
SmallMap == 300

Conns == {1, 2}
Names == {"ann"}

Pt(px, py) == [x |-> px, y |-> py]

\* spawn points addPlayer may draw: two within collision range of each other, one apart
SpawnA == Pt(1000, 1000)
SpawnB == Pt(1010, 1000)
SpawnC == Pt(1500, 1000)
\* where near food lies: at the head of a snake spawned at SpawnA after its first
\* move, and in the grid cell to the left of it
FoodA == Pt(1003, 1000)
FoodB == Pt(995, 1000)
FarPoint == Pt(10, 10)
FarFood == [id |-> 0, position |-> FarPoint, value |-> 1]

Min(a, b) == IF a < b THEN a ELSE b
Max(a, b) == IF a > b THEN a ELSE b

\* ------------------------------------------------------------ models.ts
\* distance(p1, p2) ^ 2
distanceSq(p1, p2) == (p2.x - p1.x) * (p2.x - p1.x) + (p2.y - p1.y) * (p2.y - p1.y)

\* distance(p1, p2) < r
distanceLess(p1, p2, r) == distanceSq(p1, p2) < r * r

Sign(n) == IF n > 0 THEN 1 ELSE IF n < 0 THEN -1 ELSE 0
Abs(n) == IF n < 0 THEN -n ELSE n

\* normalizeVector, on axis-parallel vectors (one coordinate 0)
normalizeVector(p) == IF p.x = 0 /\ p.y = 0 THEN Pt(0, 0) ELSE Pt(Sign(p.x), Sign(p.y))

\* Math.sqrt(x*x + y*y) of an axis-parallel vector
magnitude(p) == Abs(p.x) + Abs(p.y)

\* createSnake without its segments loop (a variant that tells whether a property
\* depends on the initial segments)
createNoSegments(position, segmentCount) == <<>>

\* the initial segments: position.x - i for i = 0..9
createSegments(position, segmentCount) ==
    [i \in 1..segmentCount |-> Pt(position.x - (i - 1), position.y)]

createSnake(id, name, position) ==
    [id |-> id, name |-> name,
     segments |-> createSegments(position, 10),
     direction |-> Pt(1, 0),
     speed |-> 3, baseSpeed |-> 3,
     score |-> 0, alive |-> TRUE,
     boostMeter |-> 0, isBoosting |-> FALSE, boostEndTime |-> 0,
     kills |-> 0]

createEmptyGameState(width, height) ==
    [width |-> width, height |-> height,
     snakes |-> <<>>, foods |-> [far |-> 0, rest |-> <<>>], leaderboard |-> <<>>,
     lastTick |-> 0, foodSpawnCounter |-> 0,
     eventListeners |-> <<>>,
     events |-> <<>>, hits |-> <<>>, eaten |-> <<>>, ticksRun |-> 0,
     nextFoodId |-> 1]

\* ------------------------------------------------------------ state.foods
foodsLength(foods) == foods.far + Len(foods.rest)

\* foods[i] is not undefined (i is 0-based)
foodsHas(foods, i) == i >= 0 /\ i < foodsLength(foods)

\* foods[i], where it is defined
foodsAt(foods, i) == IF i < foods.far THEN FarFood ELSE foods.rest[i - foods.far + 1]

\* foods.filter((_, index) => index !== i)
foodsRemove(foods, i) ==
    IF ~foodsHas(foods, i) THEN foods
    ELSE IF i < foods.far THEN [foods EXCEPT !.far = @ - 1]
    ELSE LET k == i - foods.far + 1 IN
         [foods EXCEPT !.rest = SubSeq(@, 1, k - 1) \o SubSeq(@, k + 1, Len(@))]

foodsPush(foods, food) == [foods EXCEPT !.rest = Append(@, food)]

foodIds(foods) == {foods.rest[k].id : k \in 1..Len(foods.rest)}

\* ------------------------------------------------------------ the grid
getGridCell(x, y, cellSize, worldWidth, worldHeight) ==
    LET safeX == Max(0, Min(x, worldWidth - 1))
        safeY == Max(0, Min(y, worldHeight - 1))
    IN  [row |-> safeY \div cellSize, col |-> safeX \div cellSize]

RECURSIVE restIndices(_, _, _, _, _)
\* the indices, ascending, of the foods of foods.rest[k..] that lie in cell
restIndices(foods, cell, w, h, k) ==
    IF k > Len(foods.rest) THEN <<>>
    ELSE LET p == foods.rest[k].position
             here == getGridCell(p.x, p.y, CELL_SIZE, w, h) = cell
         IN  (IF here THEN <<foods.far + k - 1>> ELSE <<>>)
             \o restIndices(foods, cell, w, h, k + 1)

\* the indices, ascending, of the foods updateSpatialGrid puts in cell
cellIndices(foods, cell, w, h) ==
    LET farHere == getGridCell(FarPoint.x, FarPoint.y, CELL_SIZE, w, h) = cell
    IN  (IF farHere THEN [k \in 1..foods.far |-> k - 1] ELSE <<>>)
        \o restIndices(foods, cell, w, h, 1)

\* spatialGrid.get(key): every food once as 'food', then every food once as
\* 'specialFood' (the snake entries of a cell are read by nobody)
spatialGridCell(foods, cell, w, h) ==
    LET idx == cellIndices(foods, cell, w, h)
    IN  [k \in 1..Len(idx) |-> [type |-> "food", index |-> idx[k]]]
        \o [k \in 1..Len(idx) |-> [type |-> "specialFood", index |-> idx[k]]]

Offsets == <<-1, 0, 1>>

RECURSIVE neighbourItems(_, _, _, _, _)
\* the items of the cells checkCollisions visits around headCell, in its order:
\* rowOffset -1..1, colOffset -1..1; n counts the nine cells from 0
neighbourItems(grid, headCell, w, h, n) ==
    IF n >= 9 THEN <<>>
    ELSE LET cell == [row |-> headCell.row + Offsets[(n \div 3) + 1],
                      col |-> headCell.col + Offsets[(n % 3) + 1]]
         IN  spatialGridCell(grid, cell, w, h) \o neighbourItems(grid, headCell, w, h, n + 1)

\* ------------------------------------------------------------ engine.ts
\* addEventListener(listener).  A listener of the model is "records", which
\* returns normally and whose calls are the log events, or "throws", which throws
\* on every call
addEventListener(e, listener) == [e EXCEPT !.eventListeners = Append(@, listener)]

\* the listeners a forEach without the try/catch of lines 84-88 calls: the throw
\* leaves forEach at the first listener that throws (a variant that tells
\* whether a property depends on the catch)
reachedUntilThrow(listeners) ==
    LET throwing == {n \in 1..Len(listeners) : listeners[n] = "throws"}
    IN  IF throwing = {} THEN listeners
        ELSE SubSeq(listeners, 1, CHOOSE n \in throwing : \A m \in throwing : n <= m)

\* the listeners the forEach of emitEvent calls: each call is inside its own
\* try/catch, so that a throw ends that call alone
reached(listeners) == listeners

\* emitEvent: every listener reached that records gets the event
emitEvent(e, event, data) ==
    [e EXCEPT !.events =
        @ \o [n \in 1..Len(SelectSeq(reached(e.eventListeners), LAMBDA l : l = "records")) |->
                 [type |-> event, data |-> data]]]

\* spawnFoodAt(position, value); the uuid is the next unused number
spawnFoodAt(e, position, value) ==
    [e EXCEPT !.foods = foodsPush(@, [id |-> e.nextFoodId, position |-> position, value |-> value]),
              !.nextFoodId = @ + 1]

\* spawnFood(): rnd gives Math.random()'s position, createFood's value and isSpecial
spawnFood(e, rnd) ==
    spawnFoodAt(e, rnd.position, IF rnd.isSpecial THEN rnd.value * 3 ELSE rnd.value)

\* findIndex(s => s.id === id), 1-based; 0 when there is none
RECURSIVE findSnake(_, _, _)
findSnake(snakes, id, k) ==
    IF k > Len(snakes) THEN 0
    ELSE IF snakes[k].id = id THEN k
    ELSE findSnake(snakes, id, k + 1)

\* the position is at least 200 from every alive snake's head
isSafe(snakes, position) ==
    \A k \in 1..Len(snakes) :
        (snakes[k].alive /\ Len(snakes[k].segments) # 0)
            => ~distanceLess(position, snakes[k].segments[1], 200)

RECURSIVE pickPosition(_, _, _)
\* the while loop of addPlayer over the positions its attempts draw: the first
\* safe one, or the tenth whether it is safe or not
pickPosition(snakes, draws, attempts) ==
    IF attempts + 1 >= Len(draws) \/ isSafe(snakes, draws[attempts + 1])
    THEN draws[attempts + 1]
    ELSE pickPosition(snakes, draws, attempts + 1)

\* a position padding + Math.random() * (size - 2 * padding) can be
inSpawnRange(v, size) ==
    IF size > 600 THEN v >= 300 /\ v < size - 300 ELSE v > size - 300 /\ v <= 300

\* addPlayer that gives a dead snake of the same name a new body under its old
\* id instead of pushing a snake with a new id (a variant that tells whether a
\* property depends on every addPlayer making a new snake)
addPlayerRevive(e, id, name, draws) ==
    LET dead == {k \in 1..Len(e.snakes) : ~e.snakes[k].alive /\ e.snakes[k].name = name}
    IN  IF dead = {}
        THEN [e EXCEPT !.snakes = Append(@, createSnake(id, name, pickPosition(e.snakes, draws, 0)))]
        ELSE LET k == CHOOSE k \in dead : TRUE
             IN  [e EXCEPT !.snakes[k] =
                     createSnake(e.snakes[k].id, name, pickPosition(e.snakes, draws, 0))]

\* addPlayer(name), id the uuid drawn, draws the ten positions drawn
\* (createSnake never returns speed 0, so the speed === 0 branch is dead)
addPlayer(e, id, name, draws) ==
    [e EXCEPT !.snakes = Append(@, createSnake(id, name, pickPosition(e.snakes, draws, 0)))]

\* the stable sort (a, b) => b.score - a.score: x goes behind every entry
\* whose score is at least its own
sortInsert(sorted, x) ==
    LET ahead == {k \in 1..Len(sorted) : sorted[k].score >= x.score}
        n == IF ahead = {} THEN 0 ELSE CHOOSE k \in ahead : \A m \in ahead : m <= k
    IN  SubSeq(sorted, 1, n) \o <<x>> \o SubSeq(sorted, n + 1, Len(sorted))

RECURSIVE sortByScore(_, _)
sortByScore(entries, k) ==
    IF k = 0 THEN <<>> ELSE sortInsert(sortByScore(entries, k - 1), entries[k])

leaderboardEntry(snake) == [id |-> snake.id, name |-> snake.name, score |-> snake.score]

\* updateLeaderboard without .slice(0, 10) (a variant that tells whether a
\* property depends on the cut)
updateLeaderboardUncut(e) ==
    LET entries == [k \in 1..Len(e.snakes) |-> leaderboardEntry(e.snakes[k])]
    IN  [e EXCEPT !.leaderboard = sortByScore(entries, Len(entries))]

updateLeaderboard(e) ==
    LET entries == [k \in 1..Len(e.snakes) |-> leaderboardEntry(e.snakes[k])]
        sorted == sortByScore(entries, Len(entries))
    IN  [e EXCEPT !.leaderboard = SubSeq(sorted, 1, Min(LEADERBOARD_SIZE, Len(sorted)))]

\* getPlayerRank(playerId): 1-based place by score, 0 when not found
getPlayerRank(e, playerId) ==
    LET entries == [k \in 1..Len(e.snakes) |-> leaderboardEntry(e.snakes[k])]
    IN  findSnake(sortByScore(entries, Len(entries)), playerId, 1)

\* removePlayer without the updateLeaderboard of line 201 (a variant that tells
\* whether a property depends on it)
removePlayerKeepBoard(e, id) ==
    [e EXCEPT !.snakes = SelectSeq(@, LAMBDA s : s.id # id)]

\* removePlayer(id)
removePlayer(e, id) ==
    updateLeaderboard([e EXCEPT !.snakes = SelectSeq(@, LAMBDA s : s.id # id)])

\* baseSpeed = 2 + Math.min(1, inputMagnitude / 100) * 2
inputBaseSpeed(direction) == 2 + (2 * Min(100, magnitude(direction))) \div 100

\* handlePlayerInput without lines 218-223 (a variant that tells whether a
\* property depends on the speed being set with the base speed)
handlePlayerInputKeepSpeed(e, input) ==
    LET k == findSnake(e.snakes, input.id, 1) IN
    IF k = 0 \/ ~e.snakes[k].alive THEN e
    ELSE [e EXCEPT !.snakes[k].baseSpeed = inputBaseSpeed(input.direction),
                   !.snakes[k].direction = normalizeVector(input.direction)]

\* handlePlayerInput with if (!snake) in place of line 207 (a variant that tells
\* whether a property depends on the alive check)
handlePlayerInputAnySnake(e, input) ==
    LET k == findSnake(e.snakes, input.id, 1) IN
    IF k = 0 THEN e
    ELSE LET base == inputBaseSpeed(input.direction) IN
         [e EXCEPT !.snakes[k].baseSpeed = base,
                   !.snakes[k].speed = IF e.snakes[k].isBoosting THEN base * 2 ELSE base,
                   !.snakes[k].direction = normalizeVector(input.direction)]

\* handlePlayerInput(input)
handlePlayerInput(e, input) ==
    LET k == findSnake(e.snakes, input.id, 1) IN
    IF k = 0 \/ ~e.snakes[k].alive THEN e
    ELSE LET base == inputBaseSpeed(input.direction) IN
         [e EXCEPT !.snakes[k].baseSpeed = base,
                   !.snakes[k].speed = IF e.snakes[k].isBoosting THEN base * 2 ELSE base,
                   !.snakes[k].direction = normalizeVector(input.direction)]

\* canBoost without the alive check of line 233 (a variant that tells whether a
\* property depends on it)
canBoostDead(e, playerId) ==
    LET k == findSnake(e.snakes, playerId, 1) IN
    /\ k # 0
    /\ ~(e.snakes[k].boostMeter < 100)
    /\ ~e.snakes[k].isBoosting

\* whether activateBoost(playerId) returns true
canBoost(e, playerId) ==
    LET k == findSnake(e.snakes, playerId, 1) IN
    /\ k # 0
    /\ e.snakes[k].alive
    /\ ~(e.snakes[k].boostMeter < 100)
    /\ ~e.snakes[k].isBoosting

\* the state activateBoost(playerId) leaves, now the reading of Date.now()
activateBoost(e, playerId, now) ==
    LET k == findSnake(e.snakes, playerId, 1) IN
    IF ~canBoost(e, playerId) THEN e
    ELSE emitEvent([e EXCEPT !.snakes[k].isBoosting = TRUE,
                             !.snakes[k].speed = e.snakes[k].baseSpeed * 2,
                             !.snakes[k].boostEndTime = now + BOOST_DURATION],
                   "boostStart", [playerId |-> playerId])

RECURSIVE checkBoostStatusLate(_, _, _)
\* checkBoostStatus with now > boostEndTime in line 253 (a variant that tells
\* whether a property depends on the boost ending at its end time)
checkBoostStatusLate(e, now, k) ==
    IF k > Len(e.snakes) THEN e
    ELSE IF e.snakes[k].isBoosting /\ now > e.snakes[k].boostEndTime
    THEN checkBoostStatusLate(
             emitEvent([e EXCEPT !.snakes[k].isBoosting = FALSE,
                                 !.snakes[k].speed = e.snakes[k].baseSpeed,
                                 !.snakes[k].boostMeter = 0],
                       "boostEnd", [playerId |-> e.snakes[k].id]),
             now, k + 1)
    ELSE checkBoostStatusLate(e, now, k + 1)

RECURSIVE checkBoostStatus(_, _, _)
\* checkBoostStatus over snakes[k..]
checkBoostStatus(e, now, k) ==
    IF k > Len(e.snakes) THEN e
    ELSE IF e.snakes[k].isBoosting /\ now >= e.snakes[k].boostEndTime
    THEN checkBoostStatus(
             emitEvent([e EXCEPT !.snakes[k].isBoosting = FALSE,
                                 !.snakes[k].speed = e.snakes[k].baseSpeed,
                                 !.snakes[k].boostMeter = 0],
                       "boostEnd", [playerId |-> e.snakes[k].id]),
             now, k + 1)
    ELSE checkBoostStatus(e, now, k + 1)

RECURSIVE dropSegmentFood(_, _, _, _, _)
\* the two loops of dropFoodFromSnake: food i of foodCount, at segment
\* floor(i * (length / foodCount)), moved by rnd's offset, worth rnd's value
dropSegmentFood(e, segments, foodCount, rnd, i) ==
    IF i >= foodCount THEN e
    ELSE LET segment == segments[((i * Len(segments)) \div foodCount) + 1]
         IN  dropSegmentFood(
                 spawnFoodAt(e, Pt(segment.x + rnd.dx, segment.y + rnd.dy), rnd.dropValue),
                 segments, foodCount, rnd, i + 1)

\* lines 372-380: the food of value 3 at the head
dropHeadFood(e, snake) ==
    IF Len(snake.segments) > 0 THEN spawnFoodAt(e, snake.segments[1], 3) ELSE e

dropFoodFromSnake(e, snake, rnd) ==
    dropHeadFood(dropSegmentFood(e, snake.segments, (Len(snake.segments) + 4) \div 5, rnd, 0),
                 snake)

\* the border test that never finds a head too close (a variant that tells
\* whether a property depends on updateSnakes stopping snakes at the margin)
isNeverTooCloseToEdge(e, newHead) == FALSE

isTooCloseToEdge(e, newHead) ==
    \/ newHead.x < BORDER_DANGER_ZONE
    \/ newHead.x > e.width - BORDER_DANGER_ZONE
    \/ newHead.y < BORDER_DANGER_ZONE
    \/ newHead.y > e.height - BORDER_DANGER_ZONE

\* segments.unshift(newHead) without the pop (a variant that tells whether a
\* property depends on the tail being dropped)
moveSegmentsKeepTail(segments, newHead) == <<newHead>> \o segments

\* segments.unshift(newHead); segments.pop()
moveSegments(segments, newHead) == <<newHead>> \o SubSeq(segments, 1, Len(segments) - 1)

\* lines 299-309: the head moved by direction * speed
newHeadOf(snake) ==
    Pt(snake.segments[1].x + snake.direction.x * snake.speed,
       snake.segments[1].y + snake.direction.y * snake.speed)

RECURSIVE updateSnakes(_, _, _)
\* updateSnakes over snakes[k..]
updateSnakes(e, rnd, k) ==
    IF k > Len(e.snakes) THEN e
    ELSE LET snake == e.snakes[k]
             newHead == newHeadOf(snake)
         IN  IF ~snake.alive THEN updateSnakes(e, rnd, k + 1)
             ELSE IF isTooCloseToEdge(e, newHead)
             THEN updateSnakes(
                      emitEvent([dropFoodFromSnake(e, snake, rnd) EXCEPT !.snakes[k].alive = FALSE],
                                "playerDeathBorder", [playerId |-> snake.id]),
                      rnd, k + 1)
             ELSE updateSnakes([e EXCEPT !.snakes[k].segments = moveSegments(@, newHead)],
                               rnd, k + 1)

\* snake.alive = false
markDead(e, k) == [e EXCEPT !.snakes[k].alive = FALSE]

\* lines 665-681 of killSnake: the death event of snake k; the play time is left out
emitDeath(e, k, killedById, cause) ==
    IF cause = "border"
    THEN emitEvent(e, "playerDeathBorder",
                   [playerId |-> e.snakes[k].id,
                    position |-> getPlayerRank(e, e.snakes[k].id),
                    score |-> e.snakes[k].score])
    ELSE emitEvent(e, "playerDeath",
                   [playerId |-> e.snakes[k].id, killedBy |-> killedById,
                    position |-> getPlayerRank(e, e.snakes[k].id),
                    score |-> e.snakes[k].score])

\* killSnake(snakeId, killedById, cause)
killSnake(e, snakeId, killedById, cause, rnd) ==
    LET k == findSnake(e.snakes, snakeId, 1) IN
    IF k = 0 \/ ~e.snakes[k].alive THEN e
    ELSE emitDeath(markDead(dropFoodFromSnake(e, e.snakes[k], rnd), k), k, killedById, cause)

\* one segment pushed whatever the value (a variant that tells whether a
\* property depends on the growth loop)
growByOne(segments, value) == Append(segments, segments[Len(segments)])

\* the meter raised without Math.min (a variant that tells whether a property
\* depends on the cap)
addBoostUnclamped(boostMeter, amount) == boostMeter + amount

\* Math.min(100, boostMeter + amount), lines 612 and 639
addBoost(boostMeter, amount) == Min(100, boostMeter + amount)

\* segments.push({...tail}), value times
grow(segments, value) ==
    [i \in 1..(Len(segments) + value) |->
        IF i <= Len(segments) THEN segments[i] ELSE segments[Len(segments)]]

\* handleFoodCollision(snake, foodIndex), snake the k-th of state.snakes
handleFoodCollision(e, k, foodIndex) ==
    IF ~foodsHas(e.foods, foodIndex) THEN e
    ELSE LET food == foodsAt(e.foods, foodIndex)
             meter == addBoost(e.snakes[k].boostMeter, 5)
         IN  [emitEvent([e EXCEPT !.snakes[k].score = @ + food.value,
                                  !.snakes[k].segments = grow(@, food.value),
                                  !.snakes[k].boostMeter = meter],
                        "foodCollect",
                        [playerId |-> e.snakes[k].id, foodValue |-> food.value,
                         boostMeter |-> meter])
                EXCEPT !.foods = foodsRemove(@, foodIndex)]

\* handleSpecialFoodCollision(snake, foodIndex)
handleSpecialFoodCollision(e, k, foodIndex) ==
    IF ~foodsHas(e.foods, foodIndex) THEN e
    ELSE IF foodsAt(e.foods, foodIndex).value <= 2 THEN e
    ELSE LET food == foodsAt(e.foods, foodIndex)
             meter == addBoost(e.snakes[k].boostMeter, 25)
         IN  [emitEvent([e EXCEPT !.snakes[k].score = @ + food.value,
                                  !.snakes[k].segments = grow(@, food.value),
                                  !.snakes[k].boostMeter = meter],
                        "specialFoodCollect",
                        [playerId |-> e.snakes[k].id, foodValue |-> food.value,
                         boostMeter |-> meter])
                EXCEPT !.foods = foodsRemove(@, foodIndex)]

\* Observation, not code: what one call of a food handler did, measured on
\* the states before and after it.  Nothing is noted when it consumed nothing.
noteEaten(before, after, k, food, handler) ==
    IF after.foods = before.foods /\ after.snakes = before.snakes THEN after
    ELSE [after EXCEPT !.eaten = Append(@,
            [snake |-> before.snakes[k].id, food |-> food.id, value |-> food.value,
             handler |-> handler,
             scoreGain |-> after.snakes[k].score - before.snakes[k].score,
             grown |-> Len(after.snakes[k].segments) - Len(before.snakes[k].segments),
             meterBefore |-> before.snakes[k].boostMeter,
             meterAfter |-> after.snakes[k].boostMeter,
             removed |-> foodIds(before.foods) \ foodIds(after.foods),
             removedCount |-> foodsLength(before.foods) - foodsLength(after.foods)])]

\* the food within 20 of the head that item names now, if any
itemHits(e, head, item) ==
    /\ foodsHas(e.foods, item.index)
    /\ distanceLess(head, foodsAt(e.foods, item.index).position, 20)

\* the handler checkCollisions calls for an item that hits
handleItem(e, k, item) ==
    IF item.type = "food"
    THEN noteEaten(e, handleFoodCollision(e, k, item.index), k,
                   foodsAt(e.foods, item.index), "food")
    ELSE noteEaten(e, handleSpecialFoodCollision(e, k, item.index), k,
                   foodsAt(e.foods, item.index), "specialFood")

RECURSIVE checkFood(_, _, _, _, _)
\* the food part of checkCollisions for snake k: the cellContents.forEach over
\* items[n..] of the nine cells
checkFood(e, k, head, items, n) ==
    IF n > Len(items) THEN e
    ELSE IF itemHits(e, head, items[n])
    THEN checkFood(handleItem(e, k, items[n]), k, head, items, n + 1)
    ELSE checkFood(e, k, head, items, n + 1)

playerKill(killer, victim) ==
    [killerId |-> killer.id, killerName |-> killer.name,
     victimId |-> victim.id, victimName |-> victim.name, score |-> killer.score]

\* the playerKill event, with the killer's score as it now is
emitKill(e, killer, victim) ==
    emitEvent(e, "playerKill", playerKill(e.snakes[killer], e.snakes[victim]))

\* the killer gets Math.floor(victim.score * 1 / divisor) and one kill, and the
\* playerKill event is emitted
awardKill(e, killer, victim, divisor) ==
    emitKill([e EXCEPT !.snakes[killer].score = @ + (e.snakes[victim].score \div divisor),
                       !.snakes[killer].kills = @ + 1],
             killer, victim)

\* lines 480-498: head to head, this snake the larger
largerHeadToHead(e, k, o, rnd) ==
    awardKill(killSnake(e, e.snakes[k].id, e.snakes[o].id, "", rnd), k, o, 2)

\* lines 501-518: head to head, the other snake the larger
smallerHeadToHead(e, k, o, rnd) ==
    awardKill(killSnake(e, e.snakes[k].id, e.snakes[o].id, "", rnd), o, k, 2)

\* the normal collision decided by the ids: the snake with the smaller id dies
\* (a variant that tells whether a property depends on the outcome not reading
\* the uuids)
normalCollisionById(e, k, o, rnd) ==
    IF e.snakes[k].id < e.snakes[o].id
    THEN awardKill(killSnake(e, e.snakes[k].id, e.snakes[o].id, "", rnd), o, k, 5)
    ELSE awardKill(killSnake(e, e.snakes[o].id, e.snakes[k].id, "", rnd), k, o, 5)

\* the normal collision with the award of the head-to-head branches, half the
\* victim's score (a variant that tells whether a property depends on the
\* share being a fifth)
normalCollisionHalf(e, k, o, rnd) ==
    awardKill(killSnake(e, e.snakes[k].id, e.snakes[o].id, "", rnd), o, k, 2)

\* lines 521-538: the normal collision
normalCollision(e, k, o, rnd) ==
    awardKill(killSnake(e, e.snakes[k].id, e.snakes[o].id, "", rnd), o, k, 5)

\* Observation, not code: distance(head, segment) < 20 was found true for
\* segment j (0-based) of snake o, the lengths as the code then reads them
noteHit(e, k, o, j) ==
    [e EXCEPT !.hits = Append(@,
        [snake |-> e.snakes[k].id, other |-> e.snakes[o].id, j |-> j,
         snakeLength |-> Len(e.snakes[k].segments),
         otherLength |-> Len(e.snakes[o].segments),
         snakeAlive |-> e.snakes[k].alive])]

RECURSIVE checkSegments(_, _, _, _, _, _)
\* the loop over the segments j.. (0-based) of the other snake o; returned is
\* TRUE when the code returns from the callback of snake k
checkSegments(e, k, head, o, j, rnd) ==
    LET snake == e.snakes[k]
        otherSnake == e.snakes[o]
    IN  IF j >= Len(otherSnake.segments) THEN [e |-> e, returned |-> FALSE]
        ELSE IF ~distanceLess(head, otherSnake.segments[j + 1], 20)
        THEN checkSegments(e, k, head, o, j + 1, rnd)
        ELSE IF j = 0 /\ Len(snake.segments) > Len(otherSnake.segments) + 2
        THEN checkSegments(largerHeadToHead(noteHit(e, k, o, j), k, o, rnd),
                           k, head, o, j + 1, rnd)
        ELSE IF j = 0 /\ Len(otherSnake.segments) > Len(snake.segments) + 2
        THEN [e |-> smallerHeadToHead(noteHit(e, k, o, j), k, o, rnd), returned |-> TRUE]
        ELSE IF j > 0 \/ Len(otherSnake.segments) <= Len(snake.segments) + 2
        THEN [e |-> normalCollision(noteHit(e, k, o, j), k, o, rnd), returned |-> TRUE]
        ELSE checkSegments(noteHit(e, k, o, j), k, head, o, j + 1, rnd)

RECURSIVE checkOtherSnakes(_, _, _, _, _)
RECURSIVE afterSegments(_, _, _, _, _)
\* the loop over the other snakes o.. (1-based) for snake k
checkOtherSnakes(e, k, head, o, rnd) ==
    IF o > Len(e.snakes) THEN [e |-> e, returned |-> FALSE]
    ELSE IF o = k \/ ~e.snakes[o].alive THEN checkOtherSnakes(e, k, head, o + 1, rnd)
    ELSE afterSegments(checkSegments(e, k, head, o, 0, rnd), k, head, o, rnd)

\* r the outcome of the segments loop for the other snake o: the callback has
\* returned, or the loop goes on with the next snake
afterSegments(r, k, head, o, rnd) ==
    IF r.returned THEN r ELSE checkOtherSnakes(r.e, k, head, o + 1, rnd)

\* lines 543-552: some segment j >= 3 (0-based) is within 15 of the head
selfCollision(snake, head) ==
    /\ Len(snake.segments) > 4
    /\ \E j \in 3..(Len(snake.segments) - 1) : distanceLess(head, snake.segments[j + 1], 15)

outOfWorld(e, head) ==
    head.x < 0 \/ head.x >= e.width \/ head.y < 0 \/ head.y >= e.height

\* lines 543-558 with the self collision credited to the first other snake (a
\* variant that tells whether a property depends on killSnake(snake.id) naming
\* no killer)
afterOtherSnakesCredited(r, k, head, rnd) ==
    IF r.returned THEN r.e
    ELSE IF selfCollision(r.e.snakes[k], head)
    THEN IF Len(r.e.snakes) > 1
         THEN awardKill(killSnake(r.e, r.e.snakes[k].id, 0, "", rnd),
                        IF k = 1 THEN 2 ELSE 1, k, 5)
         ELSE killSnake(r.e, r.e.snakes[k].id, 0, "", rnd)
    ELSE IF outOfWorld(r.e, head)
    THEN killSnake(r.e, r.e.snakes[k].id, 0, "border", rnd)
    ELSE r.e

\* lines 543-558 for snake k, r the outcome of the loop over the other snakes
afterOtherSnakes(r, k, head, rnd) ==
    IF r.returned THEN r.e
    ELSE IF selfCollision(r.e.snakes[k], head)
    THEN killSnake(r.e, r.e.snakes[k].id, 0, "", rnd)
    ELSE IF outOfWorld(r.e, head)
    THEN killSnake(r.e, r.e.snakes[k].id, 0, "border", rnd)
    ELSE r.e

\* the items of the nine cells around the head of snake k
itemsAround(e, grid, head) ==
    neighbourItems(grid, getGridCell(head.x, head.y, CELL_SIZE, e.width, e.height),
                   e.width, e.height, 0)

\* the callback of checkCollisions for snake k; grid is the food array as
\* updateSpatialGrid saw it
checkSnake(e, grid, k, rnd) ==
    IF ~e.snakes[k].alive THEN e
    ELSE afterOtherSnakes(
             checkOtherSnakes(
                 checkFood(e, k, e.snakes[k].segments[1],
                           itemsAround(e, grid, e.snakes[k].segments[1]), 1),
                 k, e.snakes[k].segments[1], 1, rnd),
             k, e.snakes[k].segments[1], rnd)

RECURSIVE checkSnakes(_, _, _, _)
checkSnakes(e, grid, k, rnd) ==
    IF k > Len(e.snakes) THEN e
    ELSE checkSnakes(checkSnake(e, grid, k, rnd), grid, k + 1, rnd)

checkCollisions(e, rnd) == checkSnakes(e, e.foods, 1, rnd)

\* lines 281-288 without the test of line 285 (a variant that tells whether a
\* property depends on the timer reading the food count)
spawnAlways(e, deltaTime, rnd) ==
    LET counter == e.foodSpawnCounter + deltaTime IN
    IF counter >= FOOD_SPAWN_INTERVAL
    THEN spawnFood([e EXCEPT !.foodSpawnCounter = 0], rnd)
    ELSE [e EXCEPT !.foodSpawnCounter = counter]

\* lines 281-288
spawnPeriodically(e, deltaTime, rnd) ==
    LET counter == e.foodSpawnCounter + deltaTime IN
    IF counter >= FOOD_SPAWN_INTERVAL
    THEN LET e1 == [e EXCEPT !.foodSpawnCounter = 0]
         IN  IF foodsLength(e1.foods) < FOOD_COUNT THEN spawnFood(e1, rnd) ELSE e1
    ELSE [e EXCEPT !.foodSpawnCounter = counter]

\* whether update(deltaTime) runs a tick
ticks(e, deltaTime) == ~(e.lastTick + deltaTime < TICK_RATE)

\* update(deltaTime); ticksRun counts the calls that pass line 268
update(e, deltaTime, now, rnd) ==
    IF ~ticks(e, deltaTime) THEN [e EXCEPT !.lastTick = @ + deltaTime]
    ELSE updateLeaderboard(
             spawnPeriodically(
                 checkCollisions(
                     updateSnakes(checkBoostStatus([e EXCEPT !.lastTick = 0, !.ticksRun = @ + 1],
                                                  now, 1),
                                 rnd, 1),
                     rnd),
                 deltaTime, rnd))

\* ------------------------------------------------------------ part_010
VARIABLES
    engine,            \* gameEngine: state, lastTick, foodSpawnCounter,
                       \* eventListeners; the events, hits and eaten of the last
                       \* operation and the number of ticks run
    now,               \* Date.now()
    nextId,            \* the next uuid addPlayer draws
    conns,             \* per socket: its status and the playerId of its closure
    connectedPlayers,  \* the map socket id -> playerId
    sent,              \* the messages the last handler emitted, in order
    owner              \* observation: the socket each snake id was created for

vars == <<engine, now, nextId, conns, connectedPlayers, sent, owner>>

\* the events, hits and eaten of the operation that starts
begin(e) == [e EXCEPT !.events = <<>>, !.hits = <<>>, !.eaten = <<>>]

\* spawnInitialFood: FOOD_COUNT foods, of which near are the ones that lie where
\* snakes come and all the others are FarFood
spawnInitialFood(e, near) ==
    [e EXCEPT !.foods = [far |-> FOOD_COUNT - Len(near), rest |-> near],
              !.nextFoodId = Len(near) + 1]

\* new GameEngine(width, height)
newGameEngine(width, height, near) ==
    spawnInitialFood(createEmptyGameState(width, height), near)

\* NearFoods foods of which the first a lie at FoodA and have value 3, the others
\* lie at FoodB and have value 1
nearFoods(a) ==
    [i \in 1..NearFoods |->
        [id |-> i, position |-> IF i <= a THEN FoodA ELSE FoodB,
         value |-> IF i <= a THEN 3 ELSE 1]]

LayoutSplits == {0, NearFoods}

\* initGameServer, and io.on('connection') for the sockets of Conns: each has its
\* handlers and playerId = null (0 here)
Init ==
    /\ \E a \in LayoutSplits :
           engine = addEventListener(
                        newGameEngine(SERVER_WIDTH, SERVER_HEIGHT, nearFoods(a)), "records")
    /\ now = 0
    /\ nextId = 1
    /\ conns = [c \in Conns |-> [status |-> "open", playerId |-> 0]]
    /\ connectedPlayers = [c \in {} |-> 0]
    /\ sent = <<>>
    /\ owner = [i \in {} |-> 0]

toSocket(c, type, data) == [to |-> "socket", socket |-> c, type |-> type, data |-> data]
toAll(type, data) == [to |-> "all", socket |-> 0, type |-> type, data |-> data]
toOthers(c, type, data) == [to |-> "others", socket |-> c, type |-> type, data |-> data]

\* the sockets connectedPlayers maps to playerId
socketsOf(players, playerId) == {c \in DOMAIN players : players[c] = playerId}

\* the listener with io.emit in place of io.to(socketId).emit at line 83 (a
\* variant that tells whether a property depends on the addressee)
relayEventToAll(players, snakes, event) ==
    IF event.type = "playerDeath"
    THEN <<toAll("playerDeath",
                 [cause |-> "unknown", position |-> event.data.position,
                  score |-> event.data.score])>>
    ELSE <<>>

\* the listener of lines 74-128 on one event
relayEvent(players, snakes, event) ==
    IF event.type = "playerDeath"
    THEN LET to == socketsOf(players, event.data.playerId)
         IN  IF to = {} THEN <<>>
             ELSE <<toSocket(CHOOSE c \in to : TRUE, "playerDeath",
                             [cause |-> "unknown", position |-> event.data.position,
                              score |-> event.data.score])>>
    ELSE IF event.type = "playerKill"
    THEN LET killer == findSnake(snakes, event.data.killerId, 1)
             victim == findSnake(snakes, event.data.victimId, 1)
             to == socketsOf(players, event.data.killerId)
         IN  (IF killer # 0 /\ victim # 0
              THEN <<toAll("playerKill",
                           [killerId |-> event.data.killerId,
                            killerName |-> snakes[killer].name,
                            victimId |-> event.data.victimId,
                            victimName |-> snakes[victim].name,
                            score |-> event.data.score])>>
              ELSE <<>>)
             \o (IF to = {} THEN <<>>
                 ELSE <<toSocket(CHOOSE c \in to : TRUE, "playerKill",
                                 [victimId |-> event.data.victimId,
                                  victimName |-> event.data.victimName,
                                  score |-> event.data.score])>>)
    ELSE <<>>

RECURSIVE relayEvents(_, _, _, _)
relayEvents(players, snakes, events, n) ==
    IF n > Len(events) THEN <<>>
    ELSE relayEvent(players, snakes, events[n]) \o relayEvents(players, snakes, events, n + 1)

\* socket.on('joinGame'); limit bounds the snakes a run creates
JoinGame(c, playerName, draws, limit) ==
    /\ conns[c].status = "open"
    /\ nextId <= limit
    /\ engine' = addPlayer(begin(engine), nextId, playerName, draws)
    /\ conns' = [conns EXCEPT ![c].playerId = nextId]
    /\ connectedPlayers' = [s \in DOMAIN connectedPlayers \cup {c} |->
                               IF s = c THEN nextId ELSE connectedPlayers[s]]
    /\ sent' = <<toSocket(c, "playerJoined", [playerId |-> nextId]),
                 toOthers(c, "playerJoinedGame", [id |-> nextId, name |-> playerName])>>
    /\ owner' = [i \in DOMAIN owner \cup {nextId} |-> IF i = nextId THEN c ELSE owner[i]]
    /\ nextId' = nextId + 1
    /\ UNCHANGED now

\* socket.on('playerInput') without the comparison of line 191 (a variant that
\* tells whether a property depends on the id being validated)
PlayerInputUnchecked(c, input) ==
    /\ conns[c].status = "open"
    /\ engine' = handlePlayerInput(begin(engine), input)
    /\ sent' = <<>>
    /\ UNCHANGED <<now, nextId, conns, connectedPlayers, owner>>

\* socket.on('playerInput')
PlayerInput(c, input) ==
    /\ conns[c].status = "open"
    /\ engine' = IF conns[c].playerId # 0 /\ input.id = conns[c].playerId
                 THEN handlePlayerInput(begin(engine), input)
                 ELSE begin(engine)
    /\ sent' = <<>>
    /\ UNCHANGED <<now, nextId, conns, connectedPlayers, owner>>

\* socket.on('activateBoost')
ActivateBoost(c) ==
    /\ conns[c].status = "open"
    /\ engine' = IF conns[c].playerId # 0
                 THEN activateBoost(begin(engine), conns[c].playerId, now)
                 ELSE begin(engine)
    /\ sent' = IF conns[c].playerId # 0 /\ canBoost(engine, conns[c].playerId)
               THEN <<toSocket(c, "boostActivated", [playerId |-> conns[c].playerId])>>
               ELSE <<>>
    /\ UNCHANGED <<now, nextId, conns, connectedPlayers, owner>>

\* the final stats with the snake's index in state.snakes as its rank (a
\* variant that tells whether a property depends on the rank being by score)
finalStatsByIndex(e, k) ==
    [score |-> e.snakes[k].score, kills |-> e.snakes[k].kills,
     rank |-> k,
     snakeLength |-> Len(e.snakes[k].segments)]

\* the data of the finalStats message of lines 240-245 for snakes[k]
finalStats(e, k) ==
    [score |-> e.snakes[k].score, kills |-> e.snakes[k].kills,
     rank |-> getPlayerRank(e, e.snakes[k].id),
     snakeLength |-> Len(e.snakes[k].segments)]

\* socket.on('disconnect')
Disconnect(c) ==
    /\ conns[c].status = "open"
    /\ LET playerId == conns[c].playerId
           k == findSnake(engine.snakes, playerId, 1)
       IN  IF playerId # 0
           THEN /\ engine' = removePlayer(begin(engine), playerId)
                /\ connectedPlayers' = [s \in DOMAIN connectedPlayers \ {c} |->
                                           connectedPlayers[s]]
                /\ sent' = (IF k # 0 THEN <<toSocket(c, "finalStats", finalStats(engine, k))>>
                            ELSE <<>>)
                           \o <<toAll("playerLeft", [id |-> playerId])>>
           ELSE /\ engine' = begin(engine)
                /\ sent' = <<>>
                /\ UNCHANGED connectedPlayers
    /\ conns' = [conns EXCEPT ![c] = [status |-> "closed", playerId |-> 0]]
    /\ UNCHANGED <<now, nextId, owner>>

\* socket.on('changeName'): the name is written to the snake that getState()
\* returns, which is the engine's own state object
ChangeName(c, id, name) ==
    /\ conns[c].status = "open"
    /\ LET playerId == conns[c].playerId
           k == findSnake(engine.snakes, playerId, 1)
       IN  IF playerId # 0 /\ id = playerId /\ k # 0
           THEN /\ engine' = [begin(engine) EXCEPT !.snakes[k].name = name]
                /\ sent' = <<toAll("playerNameChanged", [id |-> playerId, name |-> name])>>
           ELSE /\ engine' = begin(engine)
                /\ sent' = <<>>
    /\ UNCHANGED <<now, nextId, conns, connectedPlayers, owner>>

\* socket.on('chatMessage'); the timestamp is left out
ChatMessage(c, message) ==
    /\ conns[c].status = "open"
    /\ engine' = begin(engine)
    /\ sent' = LET playerId == conns[c].playerId
                   k == findSnake(engine.snakes, playerId, 1)
               IN  IF playerId = 0 THEN <<>>
                   ELSE <<toAll("chatMessage",
                                [playerId |-> playerId,
                                 playerName |-> IF k # 0 THEN engine.snakes[k].name
                                                ELSE "Unknown",
                                 message |-> message])>>
    /\ UNCHANGED <<now, nextId, conns, connectedPlayers, owner>>

snapshot(e) == [snakes |-> e.snakes, leaderboard |-> e.leaderboard]

\* the firing with getState() read before the update (a variant that tells
\* whether a property depends on the broadcast carrying the state after it)
ServerTickStale(rnd, sendBoard) ==
    /\ now < MaxTicks * SERVER_TICK_RATE
    /\ now' = now + SERVER_TICK_RATE
    /\ engine' = update(begin(engine), SERVER_TICK_RATE, now, rnd)
    /\ sent' = relayEvents(connectedPlayers, engine'.snakes, engine'.events, 1)
               \o <<toAll("gameState", snapshot(engine))>>
               \o (IF sendBoard THEN <<toAll("leaderboardUpdate", engine.leaderboard)>>
                   ELSE <<>>)
    /\ UNCHANGED <<nextId, conns, connectedPlayers, owner>>

\* the firing with a listener that calls removePlayer for the snakes it is
\* told have died (a variant that tells whether a property depends on the
\* listener making no call into the engine)
ServerTickReaping(rnd, sendBoard) ==
    /\ now < MaxTicks * SERVER_TICK_RATE
    /\ now' = now + SERVER_TICK_RATE
    /\ engine' = updateLeaderboard(
                     [update(begin(engine), SERVER_TICK_RATE, now, rnd)
                         EXCEPT !.snakes = SelectSeq(@, LAMBDA s : s.alive)])
    /\ sent' = relayEvents(connectedPlayers, engine'.snakes, engine'.events, 1)
               \o <<toAll("gameState", snapshot(engine'))>>
               \o (IF sendBoard THEN <<toAll("leaderboardUpdate", engine'.leaderboard)>>
                   ELSE <<>>)
    /\ UNCHANGED <<nextId, conns, connectedPlayers, owner>>

\* one firing of the setInterval of lines 135-155; rnd is what Math.random()
\* gives the engine, sendBoard whether Math.random() < 0.2
ServerTick(rnd, sendBoard) ==
    /\ now < MaxTicks * SERVER_TICK_RATE
    /\ now' = now + SERVER_TICK_RATE
    /\ engine' = update(begin(engine), SERVER_TICK_RATE, now, rnd)
    /\ sent' = relayEvents(connectedPlayers, engine'.snakes, engine'.events, 1)
               \o <<toAll("gameState", snapshot(engine'))>>
               \o (IF sendBoard THEN <<toAll("leaderboardUpdate", engine'.leaderboard)>>
                   ELSE <<>>)
    /\ UNCHANGED <<nextId, conns, connectedPlayers, owner>>

\* ------------------------------------------------------------ inputs
\* the ten positions of addPlayer's attempts: k times q, then p
drawsOf(q, p, k) == [i \in 1..10 |-> IF i <= k THEN q ELSE p]
\* whether addPlayer can draw these positions on a map of the given size
canDraw(draws, width, height) ==
    \A i \in 1..Len(draws) : inSpawnRange(draws[i].x, width) /\ inSpawnRange(draws[i].y, height)

Draws ==
    {d \in {drawsOf(SpawnA, SpawnA, 0), drawsOf(SpawnB, SpawnB, 0), drawsOf(SpawnB, SpawnC, 9)} :
        canDraw(d, SERVER_WIDTH, SERVER_HEIGHT)}

\* the direction a client sends: left at full speed
Directions == {Pt(-100, 0)}
Inputs == {[id |-> i, direction |-> d] : i \in 1..MaxPlayers, d \in Directions}

\* what Math.random() gives one tick: the offset and value of dropped food, and
\* the food spawnFood makes
TickRnds ==
    {[dx |-> 0, dy |-> 0, dropValue |-> 1, position |-> FoodA, value |-> 1, isSpecial |-> FALSE],
     [dx |-> -10, dy |-> 5, dropValue |-> 2, position |-> SpawnC, value |-> 3, isSpecial |-> TRUE]}

Next ==
    \/ \E c \in Conns, n \in Names, d \in Draws : JoinGame(c, n, d, MaxPlayers)
    \/ \E c \in Conns, i \in Inputs : PlayerInput(c, i)
    \/ \E c \in Conns : ActivateBoost(c)
    \/ \E c \in Conns : Disconnect(c)
    \/ \E r \in TickRnds, b \in BOOLEAN : ServerTick(r, b)

Spec == Init /\ [][Next]_vars

\* ------------------------------------------------------------ a crowded server
\* One socket sends joinGame up to MaxCrowd times, every position drawn being
\* SpawnA, so that more snakes exist than the leaderboard has places.
CrowdConns == {1}

NextCrowd ==
    \/ \E c \in CrowdConns, n \in Names : JoinGame(c, n, drawsOf(SpawnA, SpawnA, 0), MaxCrowd)
    \/ \E c \in CrowdConns : Disconnect(c)
    \/ \E r \in TickRnds, b \in BOOLEAN : ServerTick(r, b)

SpecCrowd == Init /\ [][NextCrowd]_vars

\* ------------------------------------------------------------ a server with all six messages
\* The server with every message type a socket sends, every position drawn
\* being SpawnA.
NewNames == {"bob"}
Messages == {"hi"}

NextMessages ==
    \/ \E c \in Conns, n \in Names : JoinGame(c, n, drawsOf(SpawnA, SpawnA, 0), MaxPlayers)
    \/ \E c \in Conns, i \in Inputs : PlayerInput(c, i)
    \/ \E c \in Conns, i \in 1..MaxPlayers, n \in NewNames : ChangeName(c, i, n)
    \/ \E c \in Conns : ActivateBoost(c)
    \/ \E c \in Conns, m \in Messages : ChatMessage(c, m)
    \/ \E c \in Conns : Disconnect(c)
    \/ \E r \in TickRnds, b \in BOOLEAN : ServerTick(r, b)

SpecMessages == Init /\ [][NextMessages]_vars

\* ------------------------------------------------------------ the food timer
\* The server with its interval firing again and again: joins at SpawnA and up
\* to FoodTicks firings, enough for the timer to make up what the snakes ate.
FoodTicks == 8

\* one firing of the setInterval of lines 135-155, among the first FoodTicks
FoodTick(rnd, sendBoard) ==
    /\ now < FoodTicks * SERVER_TICK_RATE
    /\ now' = now + SERVER_TICK_RATE
    /\ engine' = update(begin(engine), SERVER_TICK_RATE, now, rnd)
    /\ sent' = relayEvents(connectedPlayers, engine'.snakes, engine'.events, 1)
               \o <<toAll("gameState", snapshot(engine'))>>
               \o (IF sendBoard THEN <<toAll("leaderboardUpdate", engine'.leaderboard)>>
                   ELSE <<>>)
    /\ UNCHANGED <<nextId, conns, connectedPlayers, owner>>

NextFood ==
    \/ \E c \in Conns, n \in Names : JoinGame(c, n, drawsOf(SpawnA, SpawnA, 0), MaxPlayers)
    \/ \E r \in TickRnds, b \in BOOLEAN : FoodTick(r, b)

\* the interval of line 155 comes due: the step in which now advances by
\* SERVER_TICK_RATE is a firing (no other step of NextFood changes now)
TimerDue == now < FoodTicks * SERVER_TICK_RATE /\ now' = now + SERVER_TICK_RATE

\* setInterval fires as long as the server runs
SpecFood == Init /\ [][NextFood]_vars /\ WF_now(TimerDue)

\* ------------------------------------------------------------ a head against a body
\* The server with the first snake spawned at SpawnD and the second at SpawnA:
\* after the first move the head of the first is 21 from the head of the second
\* and 18 from its next segment.
SpawnD == Pt(979, 1000)
TailDraws ==
    {d \in {drawsOf(SpawnD, SpawnD, 0), drawsOf(SpawnA, SpawnA, 0)} :
        canDraw(d, SERVER_WIDTH, SERVER_HEIGHT)}

NextTail ==
    \/ \E c \in Conns, n \in Names, d \in TailDraws : JoinGame(c, n, d, MaxPlayers)
    \/ \E c \in Conns : Disconnect(c)
    \/ \E r \in TickRnds, b \in BOOLEAN : ServerTick(r, b)

SpecTail == Init /\ [][NextTail]_vars

\* ------------------------------------------------------------ the engine on a small map
\* new GameEngine(SmallMap, SmallMap) driven through its public methods, with no
\* socket server.  On a map of 600 or less addPlayer's padding + Math.random() *
\* (width - 2 * padding) lies in (width - 300, 300], within reach of the border.
SmallSpawnA == Pt(SmallMap - 20, SmallMap - 50)
SmallSpawnB == Pt(SmallMap - 50, SmallMap - 50)
SmallDraws ==
    {d \in {drawsOf(SmallSpawnA, SmallSpawnA, 0), drawsOf(SmallSpawnB, SmallSpawnB, 0)} :
        canDraw(d, SmallMap, SmallMap)}

\* the deltaTime of one update call: half a tick, a tick
Deltas == {TICK_RATE \div 2, TICK_RATE}

InitSmallMap ==
    /\ engine = addEventListener(newGameEngine(SmallMap, SmallMap, <<>>), "records")
    /\ now = 0
    /\ nextId = 1
    /\ conns = [c \in Conns |-> [status |-> "closed", playerId |-> 0]]
    /\ connectedPlayers = [c \in {} |-> 0]
    /\ sent = <<>>
    /\ owner = [i \in {} |-> 0]

\* engine.addPlayer(name)
AddPlayer(name, draws) ==
    /\ nextId <= MaxPlayers
    /\ engine' = addPlayer(begin(engine), nextId, name, draws)
    /\ nextId' = nextId + 1
    /\ UNCHANGED <<now, conns, connectedPlayers, sent, owner>>

\* engine.handlePlayerInput(input)
HandlePlayerInput(input) ==
    /\ engine' = handlePlayerInput(begin(engine), input)
    /\ UNCHANGED <<now, nextId, conns, connectedPlayers, sent, owner>>

\* engine.activateBoost(id)
EngineActivateBoost(id) ==
    /\ engine' = activateBoost(begin(engine), id, now)
    /\ UNCHANGED <<now, nextId, conns, connectedPlayers, sent, owner>>

\* engine.removePlayer(id)
RemovePlayer(id) ==
    /\ engine' = removePlayer(begin(engine), id)
    /\ UNCHANGED <<now, nextId, conns, connectedPlayers, sent, owner>>

\* engine.update(deltaTime)
Update(deltaTime, rnd) ==
    /\ now < MaxTicks * SERVER_TICK_RATE
    /\ now' = now + deltaTime
    /\ engine' = update(begin(engine), deltaTime, now', rnd)
    /\ UNCHANGED <<nextId, conns, connectedPlayers, sent, owner>>

NextSmallMap ==
    \/ \E n \in Names, d \in SmallDraws : AddPlayer(n, d)
    \/ \E i \in Inputs : HandlePlayerInput(i)
    \/ \E i \in 1..MaxPlayers : RemovePlayer(i)
    \/ \E dt \in Deltas, r \in TickRnds : Update(dt, r)

SpecSmallMap == InitSmallMap /\ [][NextSmallMap]_vars

\* ------------------------------------------------------------ the engine of the local game
\* new GameEngine(MAP_WIDTH, MAP_HEIGHT) as GameCanvas.tsx makes it, driven
\* through its public methods.  The listeners registered are one that records,
\* or one that throws on every event followed by one that records.
MAP_WIDTH == 6000
MAP_HEIGHT == 6000

ListenerLists == {<<"records">>, <<"throws", "records">>}

RECURSIVE addEventListeners(_, _, _)
\* addEventListener for listeners[n..]
addEventListeners(e, listeners, n) ==
    IF n > Len(listeners) THEN e
    ELSE addEventListeners(addEventListener(e, listeners[n]), listeners, n + 1)

\* every position addPlayer draws is SpawnA: a second snake finds no safe
\* position in its ten attempts and takes the last one drawn
LocalDraws == {d \in {drawsOf(SpawnA, SpawnA, 0)} : canDraw(d, MAP_WIDTH, MAP_HEIGHT)}

\* the directions of an input: left at full speed, and no movement at all
LocalDirections == {Pt(-100, 0), Pt(0, 0)}
LocalInputs == {[id |-> i, direction |-> d] : i \in 1..MaxPlayers, d \in LocalDirections}

InitLocal ==
    /\ \E ls \in ListenerLists :
           engine = addEventListeners(
                        newGameEngine(MAP_WIDTH, MAP_HEIGHT, nearFoods(NearFoods)), ls, 1)
    /\ now = 0
    /\ nextId = 1
    /\ conns = [c \in Conns |-> [status |-> "closed", playerId |-> 0]]
    /\ connectedPlayers = [c \in {} |-> 0]
    /\ sent = <<>>
    /\ owner = [i \in {} |-> 0]

NextLocal ==
    \/ \E n \in Names, d \in LocalDraws : AddPlayer(n, d)
    \/ \E i \in LocalInputs : HandlePlayerInput(i)
    \/ \E i \in 1..MaxPlayers : EngineActivateBoost(i)
    \/ \E i \in 1..MaxPlayers : RemovePlayer(i)
    \/ \E dt \in Deltas, r \in TickRnds : Update(dt, r)

SpecLocal == InitLocal /\ [][NextLocal]_vars

\* ------------------------------------------------------------ the second GameEngine
\* engine.ts declares a second class GameEngine (lines 711-1148).  Its
\* checkBoostStatus, updateSnakes, dropFoodFromSnake, spawnFoodAt, the food
\* timer, updateLeaderboard, handlePlayerInput and removePlayer have the text of
\* the first; addPlayer and checkCollisions differ.
COLLISION_DISTANCE == 10
FOOD_COLLISION_DISTANCE == 15
\* snakes ever created in one run of the second engine
MaxSecond == 3

\* lines 788-802: one position drawn, no test against the other snakes
secondAddPlayer(e, id, name, position) ==
    [e EXCEPT !.snakes = Append(@, createSnake(id, name, position))]

\* food.radius as spawnFoodAt sets it (line 782); the foods of createFood lie
\* at FarPoint in this specification, where their radius decides nothing
foodRadius(food) == 3 + food.value

\* line 1000
secondFoodHit(head, food) ==
    distanceLess(head, food.position, FOOD_COLLISION_DISTANCE + foodRadius(food))

\* lines 1001-1028: the snake eats
secondEat(e, k, food) ==
    LET meter == addBoost(e.snakes[k].boostMeter, IF food.value > 2 THEN 25 ELSE 5)
    IN  emitEvent([e EXCEPT !.snakes[k].score = @ + food.value,
                            !.snakes[k].segments = grow(@, food.value),
                            !.snakes[k].boostMeter = meter],
                  IF food.value > 2 THEN "specialFoodCollect" ELSE "foodCollect",
                  [playerId |-> e.snakes[k].id, foodValue |-> food.value,
                   boostMeter |-> meter])

RECURSIVE secondFoodLoop(_, _, _, _, _)
\* lines 999-1039 for snake k: the loop over state.foods[n..] (foods is the
\* array, which the loop leaves alone; the far foods are never hit), then the
\* filter that removes the foods eaten
secondFoodLoop(e, k, head, foods, n) ==
    IF n > Len(foods)
    THEN [e EXCEPT !.foods.rest = SelectSeq(@, LAMBDA f : ~secondFoodHit(head, f))]
    ELSE IF secondFoodHit(head, foods[n])
    THEN secondFoodLoop(secondEat(e, k, foods[n]), k, head, foods, n + 1)
    ELSE secondFoodLoop(e, k, head, foods, n + 1)

\* line 1047: some segment i >= 1 of the other snake is within
\* COLLISION_DISTANCE of the head
secondBodyHit(head, otherSnake) ==
    \E i \in 1..(Len(otherSnake.segments) - 1) :
        distanceLess(head, otherSnake.segments[i + 1], COLLISION_DISTANCE)

\* lines 1048-1059: the snake drops its food, dies, and the other snake is paid
secondDie(e, k, o, rnd) ==
    [emitEvent([dropFoodFromSnake(e, e.snakes[k], rnd) EXCEPT !.snakes[k].alive = FALSE],
               "playerDeath", [playerId |-> e.snakes[k].id, killedBy |-> e.snakes[o].id])
        EXCEPT !.snakes[o].score = @ + (Len(e.snakes[k].segments) \div 2)]

RECURSIVE secondOtherSnakes(_, _, _, _, _)
\* lines 1042-1063 for snake k: the loop over the other snakes o..; the break
\* of line 1060 leaves the loop over the segments only
secondOtherSnakes(e, k, head, o, rnd) ==
    IF o > Len(e.snakes) THEN e
    ELSE IF e.snakes[o].id = e.snakes[k].id \/ ~e.snakes[o].alive
    THEN secondOtherSnakes(e, k, head, o + 1, rnd)
    ELSE IF secondBodyHit(head, e.snakes[o])
    THEN secondOtherSnakes(secondDie(e, k, o, rnd), k, head, o + 1, rnd)
    ELSE secondOtherSnakes(e, k, head, o + 1, rnd)

RECURSIVE secondCheckCollisions(_, _, _)
\* checkCollisions of the second class (lines 990-1064) over snakes[k..]
secondCheckCollisions(e, rnd, k) ==
    IF k > Len(e.snakes) THEN e
    ELSE IF ~e.snakes[k].alive THEN secondCheckCollisions(e, rnd, k + 1)
    ELSE secondCheckCollisions(
             secondOtherSnakes(
                 secondFoodLoop(e, k, e.snakes[k].segments[1], e.foods.rest, 1),
                 k, e.snakes[k].segments[1], 1, rnd),
             rnd, k + 1)

\* update of the second class (lines 872-898); time is Date.now()
secondUpdate(e, deltaTime, time, rnd) ==
    IF ~ticks(e, deltaTime) THEN [e EXCEPT !.lastTick = @ + deltaTime]
    ELSE updateLeaderboard(
             spawnPeriodically(
                 secondCheckCollisions(
                     updateSnakes(checkBoostStatus([e EXCEPT !.lastTick = 0, !.ticksRun = @ + 1],
                                                  time, 1),
                                 rnd, 1),
                     rnd, 1),
                 deltaTime, rnd))

\* engine.addPlayer(name) of the second class
SecondAddPlayer(name, position) ==
    /\ nextId <= MaxSecond
    /\ engine' = secondAddPlayer(begin(engine), nextId, name, position)
    /\ nextId' = nextId + 1
    /\ UNCHANGED <<now, conns, connectedPlayers, sent, owner>>

\* engine.update(deltaTime) of the second class
SecondUpdate(deltaTime, rnd) ==
    /\ now < MaxTicks * SERVER_TICK_RATE
    /\ now' = now + deltaTime
    /\ engine' = secondUpdate(begin(engine), deltaTime, now', rnd)
    /\ UNCHANGED <<nextId, conns, connectedPlayers, sent, owner>>

\* the position Math.random() gives line 794: every snake at one place
SecondSpawns == {p \in {SpawnA} : inSpawnRange(p.x, MAP_WIDTH) /\ inSpawnRange(p.y, MAP_HEIGHT)}
SecondInputs == {[id |-> i, direction |-> d] : i \in 1..MaxSecond, d \in Directions}
\* what Math.random() gives one tick of the second engine: the timer's food far away
SecondRnds ==
    {[dx |-> 0, dy |-> 0, dropValue |-> 1, position |-> FarPoint, value |-> 1, isSpecial |-> FALSE],
     [dx |-> -10, dy |-> 5, dropValue |-> 2, position |-> FarPoint, value |-> 3, isSpecial |-> TRUE]}

\* new GameEngine(MAP_WIDTH, MAP_HEIGHT) with all food far from the spawn points
InitSecond ==
    /\ engine = addEventListener(newGameEngine(MAP_WIDTH, MAP_HEIGHT, <<>>), "records")
    /\ now = 0
    /\ nextId = 1
    /\ conns = [c \in Conns |-> [status |-> "closed", playerId |-> 0]]
    /\ connectedPlayers = [c \in {} |-> 0]
    /\ sent = <<>>
    /\ owner = [i \in {} |-> 0]

NextSecond ==
    \/ \E n \in Names, p \in SecondSpawns : SecondAddPlayer(n, p)
    \/ \E i \in SecondInputs : HandlePlayerInput(i)
    \/ \E dt \in Deltas, r \in SecondRnds : SecondUpdate(dt, r)

SpecSecond == InitSecond /\ [][NextSecond]_vars

\* ------------------------------------------------------------ boosting
\* The second GameEngine with food at the spawn point: a snake of this class
\* outlives the tick in which it eats, so that its boost meter can be full while
\* it is alive.  activateBoost and checkBoostStatus (lines 837-869) have the
\* text of the first class.  update is called at the frame rate for the first
\* LastBoost frames and after a pause of BOOST_DURATION later on.
LastBoost == 3

\* engine.activateBoost(id) of the second class, called in the first frames
SecondActivateBoost(id) ==
    /\ now <= LastBoost * TICK_RATE
    /\ engine' = activateBoost(begin(engine), id, now)
    /\ UNCHANGED <<now, nextId, conns, connectedPlayers, sent, owner>>

\* engine.update(deltaTime) of the second class, Date.now() having advanced by
\* deltaTime
BoostUpdate(deltaTime, rnd) ==
    /\ \/ now < LastBoost * TICK_RATE
       \/ deltaTime = BOOST_DURATION /\ now < LastBoost * TICK_RATE + BOOST_DURATION
    /\ now' = now + deltaTime
    /\ engine' = secondUpdate(begin(engine), deltaTime, now', rnd)
    /\ UNCHANGED <<nextId, conns, connectedPlayers, sent, owner>>

BoostDeltas == {TICK_RATE, BOOST_DURATION}

InitBoost ==
    /\ \E a \in LayoutSplits :
           engine = addEventListener(newGameEngine(MAP_WIDTH, MAP_HEIGHT, nearFoods(a)), "records")
    /\ now = 0
    /\ nextId = 1
    /\ conns = [c \in Conns |-> [status |-> "closed", playerId |-> 0]]
    /\ connectedPlayers = [c \in {} |-> 0]
    /\ sent = <<>>
    /\ owner = [i \in {} |-> 0]

NextBoost ==
    \/ \E n \in Names, p \in SecondSpawns : nextId <= MaxPlayers /\ SecondAddPlayer(n, p)
    \/ \E i \in Inputs : HandlePlayerInput(i)
    \/ \E i \in 1..MaxPlayers : SecondActivateBoost(i)
    \/ \E i \in 1..MaxPlayers : RemovePlayer(i)
    \/ \E dt \in BoostDeltas, r \in SecondRnds : BoostUpdate(dt, r)

\* the update call after the pause: the step in which now advances by
\* BOOST_DURATION (no other step of NextBoost does)
FrameDue == now < LastBoost * TICK_RATE + BOOST_DURATION /\ now' = now + BOOST_DURATION

\* the game loop keeps calling update
SpecBoost == InitBoost /\ [][NextBoost]_vars /\ WF_now(FrameDue)

\* ------------------------------------------------------------ properties
\* the snake of state e that has the id (it exists where this is used)
snakeOf(e, id) == e.snakes[findSnake(e.snakes, id, 1)]

\* a step in which update ran a tick
TickStep == now' # now /\ ticks(engine, now' - now)

\* C1: when the heads of two alive snakes come within collision distance in a
\* tick and one has more than 2 segments more than the other, then at the end of
\* the tick the longer one is alive, the shorter one is dead and the longer one
\* has exactly one kill more.
C1_LongerWinsHeadToHead ==
    [][TickStep =>
        \A n \in 1..Len(engine'.hits) :
            LET h == engine'.hits[n]
                longer == IF h.snakeLength > h.otherLength THEN h.snake ELSE h.other
                shorter == IF h.snakeLength > h.otherLength THEN h.other ELSE h.snake
            IN  (h.j = 0 /\ h.snakeAlive /\ Abs(h.snakeLength - h.otherLength) > 2)
                    => /\ snakeOf(engine', longer).alive
                       /\ ~snakeOf(engine', shorter).alive
                       /\ snakeOf(engine', longer).kills = snakeOf(engine, longer).kills + 1]_vars

\* the state in which checkCollisions starts when a tick runs now; no draw of
\* Math.random() changes its snakes
AtCollisionCheck ==
    updateSnakes(checkBoostStatus(begin(engine), now, 1), CHOOSE r \in TickRnds : TRUE, 1)

\* C2: every food that lies within the food collision distance (20) of an alive
\* snake's head when a tick checks collisions is consumed in that tick.
C2_EveryNearFoodEaten ==
    [][TickStep =>
        \A k \in 1..Len(engine.snakes), i \in 1..Len(engine.foods.rest) :
            (/\ AtCollisionCheck.snakes[k].alive
             /\ distanceLess(AtCollisionCheck.snakes[k].segments[1],
                             engine.foods.rest[i].position, 20))
                => engine.foods.rest[i].id \notin foodIds(engine'.foods)]_vars

\* C3: each time a snake consumes a food of value v its score rises by exactly v,
\* its segment count rises by exactly v, exactly that food and no other leaves
\* state.foods, and no food is consumed twice.
C3_EatExactly ==
    \A n \in 1..Len(engine.eaten) :
        LET x == engine.eaten[n] IN
        /\ x.scoreGain = x.value
        /\ x.grown = x.value
        /\ x.removed = {x.food}
        /\ x.removedCount = 1
        /\ x.food \notin foodIds(engine.foods)
        /\ \A m \in 1..Len(engine.eaten) : engine.eaten[m].food = x.food => m = n

\* a tick in which two snakes ate, one of them through both handlers
C3_Witness ==
    /\ \E n, m \in 1..Len(engine.eaten) :
           /\ engine.eaten[n].snake # engine.eaten[m].snake
           /\ engine.eaten[n].value = 3
    /\ \E n, m \in 1..Len(engine.eaten) :
           /\ engine.eaten[n].snake = engine.eaten[m].snake
           /\ engine.eaten[n].handler = "food"
           /\ engine.eaten[m].handler = "specialFood"

C6_AliveHasHead ==
    \A k \in 1..Len(engine.snakes) :
        engine.snakes[k].alive => Len(engine.snakes[k].segments) >= 1

\* a snake alive beside one that a tick moved, fed and killed
C6_Witness ==
    \E k, m \in 1..Len(engine.snakes) :
        /\ engine.snakes[k].alive
        /\ ~engine.snakes[m].alive
        /\ Len(engine.snakes[m].segments) > 10

\* C7: state.leaderboard is sorted by score, highest first, has at most 10
\* entries, and each entry's score is the score of the snake with its id.
C7_LeaderboardSorted ==
    /\ Len(engine.leaderboard) <= 10
    /\ \A n \in 1..Len(engine.leaderboard) :
           /\ n > 1 => engine.leaderboard[n - 1].score >= engine.leaderboard[n].score
           /\ findSnake(engine.snakes, engine.leaderboard[n].id, 1) # 0
           /\ snakeOf(engine, engine.leaderboard[n].id).score = engine.leaderboard[n].score

\* more snakes than places, the board full, its order not the snakes' order
C7_Witness ==
    /\ Len(engine.snakes) > 10
    /\ Len(engine.leaderboard) = 10
    /\ engine.leaderboard[1].score > engine.leaderboard[10].score
    /\ \E n \in 1..10 : engine.leaderboard[n].id # engine.snakes[n].id

\* C8: no snake whose alive flag is false appears in state.leaderboard.
C8_LeaderboardLiveOnly ==
    \A n \in 1..Len(engine.leaderboard) :
        findSnake(engine.snakes, engine.leaderboard[n].id, 1) # 0
            => snakeOf(engine, engine.leaderboard[n].id).alive

\* C9: when the next head position of a live snake falls within the border
\* danger margin, the snake is dead at the end of that tick and a
\* playerDeathBorder event of the tick names it and carries its score.
C9_BorderDeathCarriesScore ==
    [][TickStep =>
        \A k \in 1..Len(engine.snakes) :
            (engine.snakes[k].alive /\ isTooCloseToEdge(engine, newHeadOf(engine.snakes[k])))
                => /\ ~engine'.snakes[k].alive
                   /\ \E n \in 1..Len(engine'.events) :
                          /\ engine'.events[n].type = "playerDeathBorder"
                          /\ engine'.events[n].data.playerId = engine.snakes[k].id
                          /\ "score" \in DOMAIN engine'.events[n].data
                          /\ engine'.events[n].data.score = engine'.snakes[k].score]_vars

\* C10: once a socket that joined has disconnected, no gameState broadcast
\* holds a snake created for that socket.
C10_NoSnakeOfClosedSocket ==
    \A n \in 1..Len(sent) :
        sent[n].type = "gameState"
            => \A k \in 1..Len(sent[n].data.snakes) :
                   conns[owner[sent[n].data.snakes[k].id]].status = "open"

\* C11: when a socket that joined disconnects, exactly one finalStats message is
\* emitted, to that socket, while its snake is still in the engine, and its
\* score, kills, rank and snakeLength are those of the snake at that moment
\* (the rank being its place by score, equal scores in the order of
\* state.snakes); the step removes the snake; a socket that never joined emits
\* no finalStats.
C11_FinalStatsOnDisconnect ==
    [][\A c \in Conns :
          Disconnect(c) =>
              LET playerId == conns[c].playerId
                  stats == {n \in 1..Len(sent') : sent'[n].type = "finalStats"}
                  k == findSnake(engine.snakes, playerId, 1)
                  place == 1 + Cardinality({m \in 1..Len(engine.snakes) :
                                   \/ engine.snakes[m].score > engine.snakes[k].score
                                   \/ /\ engine.snakes[m].score = engine.snakes[k].score
                                      /\ m < k})
              IN  IF playerId = 0 THEN stats = {}
                  ELSE /\ k # 0
                       /\ findSnake(engine'.snakes, playerId, 1) = 0
                       /\ Cardinality(stats) = 1
                       /\ \A n \in stats :
                              /\ sent'[n].to = "socket"
                              /\ sent'[n].socket = c
                              /\ sent'[n].data =
                                     [score |-> engine.snakes[k].score,
                                      kills |-> engine.snakes[k].kills,
                                      rank |-> place,
                                      snakeLength |-> Len(engine.snakes[k].segments)]
                              /\ \A m \in 1..Len(sent') :
                                     sent'[m].type = "playerLeft" => n < m]_vars

\* the final stats of a snake that ate, grew and came second
C11_Witness ==
    \E n \in 1..Len(sent) :
        /\ sent[n].type = "finalStats"
        /\ sent[n].data.score > 0
        /\ sent[n].data.snakeLength > 10
        /\ sent[n].data.rank = 2

\* C12: a playerInput message whose id is not the playerId of the socket that
\* sends it, or that a socket sends before it joined, changes no snake's
\* direction, baseSpeed or speed.
C12_ForeignInputIgnored ==
    [][\A c \in Conns, i \in Inputs :
          (PlayerInput(c, i) /\ (conns[c].playerId = 0 \/ i.id # conns[c].playerId))
              => /\ Len(engine'.snakes) = Len(engine.snakes)
                 /\ \A k \in 1..Len(engine.snakes) :
                        /\ engine'.snakes[k].direction = engine.snakes[k].direction
                        /\ engine'.snakes[k].baseSpeed = engine.snakes[k].baseSpeed
                        /\ engine'.snakes[k].speed = engine.snakes[k].speed]_vars

\* a socket that joined can send an input with the id of another socket's live
\* snake, which that input would turn and speed up, and a socket that has not
\* joined can send it too
C12_Witness ==
    \E c, d \in Conns, i \in Inputs :
        /\ conns[c].playerId # 0
        /\ conns[c].playerId # i.id
        /\ conns[d].status = "open"
        /\ conns[d].playerId = 0
        /\ findSnake(engine.snakes, i.id, 1) # 0
        /\ snakeOf(engine, i.id).alive
        /\ handlePlayerInput(engine, i).snakes # engine.snakes
        /\ ENABLED PlayerInput(c, i)
        /\ ENABLED PlayerInput(d, i)

\* C13: handlePlayerInput with an id that no snake has, or that a dead snake
\* has, raises no error and leaves all snakes, the food and the leaderboard
\* unchanged.
C13_InputForNoLiveSnake ==
    [][\A i \in LocalInputs :
          (/\ HandlePlayerInput(i)
           /\ \/ findSnake(engine.snakes, i.id, 1) = 0
              \/ ~snakeOf(engine, i.id).alive)
              => /\ engine'.snakes = engine.snakes
                 /\ engine'.foods = engine.foods
                 /\ engine'.leaderboard = engine.leaderboard]_vars

\* a dead snake that an input can name, beside an id that no snake has
C13_Witness ==
    \E i, j \in LocalInputs :
        /\ findSnake(engine.snakes, i.id, 1) # 0
        /\ ~snakeOf(engine, i.id).alive
        /\ normalizeVector(i.direction) # snakeOf(engine, i.id).direction
        /\ findSnake(engine.snakes, j.id, 1) = 0
        /\ ENABLED HandlePlayerInput(i)
        /\ ENABLED HandlePlayerInput(j)

\* C14: handlePlayerInput with the direction (0,0) for a live snake raises no
\* error and changes nothing: afterwards the snake's direction is the unit
\* vector it was before and its speed and baseSpeed are what they were.
C14_ZeroInputIsNoOp ==
    [][\A i \in LocalInputs :
          (/\ HandlePlayerInput(i)
           /\ i.direction = Pt(0, 0)
           /\ findSnake(engine.snakes, i.id, 1) # 0
           /\ snakeOf(engine, i.id).alive)
              => /\ snakeOf(engine', i.id).direction = snakeOf(engine, i.id).direction
                 /\ magnitude(snakeOf(engine', i.id).direction) = 1
                 /\ snakeOf(engine', i.id).speed = snakeOf(engine, i.id).speed
                 /\ snakeOf(engine', i.id).baseSpeed = snakeOf(engine, i.id).baseSpeed]_vars

C16_ThrowingListenerIsolated ==
    [][(TickStep /\ \E n \in 1..Len(engine.eventListeners) : engine.eventListeners[n] = "throws")
          => LET others(e) == [e EXCEPT !.eventListeners = SelectSeq(@, LAMBDA l : l # "throws")]
             IN  \E r \in TickRnds :
                     others(engine') = update(begin(others(engine)), now' - now, now', r)]_vars

\* a tick that emitted several events, a death among them, to a listener
\* registered behind one that throws
C16_Witness ==
    /\ engine.eventListeners = <<"throws", "records">>
    /\ engine.ticksRun > 0
    /\ Len(engine.events) > 2
    /\ \E n \in 1..Len(engine.events) : engine.events[n].type = "playerDeath"
    /\ \E n \in 1..Len(engine.events) : engine.events[n].type = "foodCollect"

\* C17: a snake whose alive flag is false never has it true again, whatever
\* operations follow; a snake that an operation adds has an id that no snake had
\* before (every id addPlayer has drawn is below nextId).
C17_DeadIsTerminal ==
    [][/\ \A k \in 1..Len(engine.snakes), m \in 1..Len(engine'.snakes) :
              (~engine.snakes[k].alive /\ engine'.snakes[m].id = engine.snakes[k].id)
                  => ~engine'.snakes[m].alive
       /\ \A m \in 1..Len(engine'.snakes) :
              findSnake(engine.snakes, engine'.snakes[m].id, 1) = 0
                  => /\ engine'.snakes[m].id >= nextId
                     /\ engine'.snakes[m].id < nextId']_vars

\* a snake that died in a tick, still in the game, beside a live snake that
\* addPlayer made afterwards
C17_Witness ==
    \E k, m \in 1..Len(engine.snakes) :
        /\ ~engine.snakes[k].alive
        /\ engine.snakes[m].alive
        /\ engine.snakes[m].id > engine.snakes[k].id
        /\ engine.ticksRun > 0

\* C18: update(deltaTime) consumes whole ticks and carries the time left over to
\* the next call: after update calls whose deltaTimes sum to T (here now, which
\* starts at 0 and grows by each call's deltaTime) the number of ticks run is
\* floor(T / TICK_RATE), however T was split across the calls.
C18_TicksAreWholeElapsedTime ==
    engine.ticksRun = now \div TICK_RATE

\* C19: state.foods never holds more than FOOD_COUNT foods, also right after
\* snakes died and dropped food.
C19_FoodWithinCap ==
    foodsLength(engine.foods) <= FOOD_COUNT

C21_OnlyEngineCallsWrite ==
    [][LET same(a, b) == /\ a.snakes = b.snakes
                         /\ a.foods = b.foods
                         /\ a.leaderboard = b.leaderboard
       IN  ~same(engine', engine)
               => \/ \E n \in Names :
                         same(engine', addPlayer(engine, nextId, n, drawsOf(SpawnA, SpawnA, 0)))
                  \/ \E i \in Inputs : same(engine', handlePlayerInput(engine, i))
                  \/ \E i \in 1..MaxPlayers : same(engine', activateBoost(engine, i, now))
                  \/ \E i \in 1..MaxPlayers : same(engine', removePlayer(engine, i))
                  \/ \E r \in TickRnds : same(engine', update(engine, SERVER_TICK_RATE, now, r))]_vars

\* C22: the map from sockets to snakes is one-to-one: each socket maps to at
\* most one snake id, that id is a snake of the engine and is the playerId of
\* the socket's handlers (the one its last playerJoined reply carried), and
\* every snake a joinGame created is mapped to by exactly one open socket.
C22_ConnectionMapOneToOne ==
    /\ \A c \in DOMAIN connectedPlayers :
           /\ conns[c].status = "open"
           /\ connectedPlayers[c] = conns[c].playerId
           /\ findSnake(engine.snakes, connectedPlayers[c], 1) # 0
    /\ \A k \in 1..Len(engine.snakes) :
           Cardinality({c \in DOMAIN connectedPlayers :
                           connectedPlayers[c] = engine.snakes[k].id}) = 1

\* C23: every firing of the server's timer advances the engine by exactly one
\* update call and then broadcasts exactly one gameState message to all
\* sockets, which carries the state after the update; leaderboardUpdate is sent
\* at most once per firing, and only behind that firing's gameState.  (The
\* firing reads no state of any socket: its only guard is the bound on now.)
C23_TickBroadcastsOnce ==
    [][now' # now =>
          LET states == {n \in 1..Len(sent') : sent'[n].type = "gameState"}
              boards == {n \in 1..Len(sent') : sent'[n].type = "leaderboardUpdate"}
          IN  /\ now' = now + SERVER_TICK_RATE
              /\ engine'.ticksRun = engine.ticksRun + 1
              /\ \E r \in TickRnds : engine' = update(begin(engine), SERVER_TICK_RATE, now, r)
              /\ Cardinality(states) = 1
              /\ \A n \in states :
                     /\ sent'[n].to = "all"
                     /\ sent'[n].data.snakes = engine'.snakes
                     /\ sent'[n].data.leaderboard = engine'.leaderboard
              /\ Cardinality(boards) <= 1
              /\ \A n \in boards :
                     /\ sent'[n].to = "all"
                     /\ sent'[n].data = engine'.leaderboard
                     /\ \A m \in states : m < n]_vars

\* a firing whose update fed and killed a snake, with both broadcasts, while a
\* socket is closed
C23_Witness ==
    \E n, m \in 1..Len(sent) :
        /\ sent[n].type = "gameState"
        /\ sent[m].type = "leaderboardUpdate"
        /\ \E k \in 1..Len(sent[n].data.snakes) :
               /\ ~sent[n].data.snakes[k].alive
               /\ sent[n].data.snakes[k].score > 0
        /\ \E c \in Conns : conns[c].status = "closed"

\* C24: removePlayer(id), called between ticks with the id of a live snake, of a
\* dead snake or of no snake, removes exactly the snake with that id from
\* state.snakes, leaves every other snake and all food as they were, and leaves
\* a leaderboard without that id: the entries of the snakes that remain.  (No
\* reachable state has a snake that boosts.  The ticks that follow are
\* evaluated in full by every run of the model.)
C24_RemoveExactlyThatSnake ==
    [][\A i \in 1..MaxPlayers :
          RemovePlayer(i) =>
              /\ engine'.snakes = SelectSeq(engine.snakes, LAMBDA s : s.id # i)
              /\ Len(engine'.snakes) >= Len(engine.snakes) - 1
              /\ engine'.foods = engine.foods
              /\ Len(engine'.leaderboard) = Min(LEADERBOARD_SIZE, Len(engine'.snakes))
              /\ \A n \in 1..Len(engine'.leaderboard) :
                     /\ engine'.leaderboard[n].id # i
                     /\ findSnake(engine'.snakes, engine'.leaderboard[n].id, 1) # 0
                     /\ engine'.leaderboard[n].score
                            = snakeOf(engine', engine'.leaderboard[n].id).score]_vars

\* the calls removePlayer can be made with: the id of a dead snake that is on
\* the leaderboard, and the id of a live snake that is not yet on it
C24_Witness ==
    \E i, j \in 1..MaxPlayers :
        /\ findSnake(engine.snakes, i, 1) # 0
        /\ ~snakeOf(engine, i).alive
        /\ \E n \in 1..Len(engine.leaderboard) : engine.leaderboard[n].id = i
        /\ findSnake(engine.snakes, j, 1) # 0
        /\ snakeOf(engine, j).alive
        /\ ENABLED RemovePlayer(i)
        /\ ENABLED RemovePlayer(j)

\* C25: the engine is deterministic: two runs that get the same calls of
\* addPlayer, handlePlayerInput, activateBoost, update and removePlayer, with
\* the same values of Math.random() and Date.now(), have the same scores and
\* alive flags after every step.  What the two runs do not share are the uuids
\* addPlayer draws: every step of a run is matched by the same call in a run
\* whose snakes have other ids, in the opposite order, and the two end in the
\* same state but for the ids (so with the same scores and alive flags).
C25_SameCallsSameOutcome ==
    [][LET other(id) == 100 - id
           twin(e) ==
               [begin(e) EXCEPT
                   !.snakes = [k \in 1..Len(e.snakes) |->
                                  [e.snakes[k] EXCEPT !.id = other(e.snakes[k].id)]],
                   !.leaderboard = [n \in 1..Len(e.leaderboard) |->
                                       [e.leaderboard[n] EXCEPT
                                           !.id = other(e.leaderboard[n].id)]]]
           before == twin(engine)
           after == twin(engine')
       IN  IF now' # now
           THEN \E r \in TickRnds :
                    /\ engine' = update(begin(engine), now' - now, now', r)
                    /\ begin(update(before, now' - now, now', r)) = after
           ELSE /\ \A n \in Names, d \in LocalDraws :
                       AddPlayer(n, d)
                           => begin(addPlayer(before, other(nextId), n, d)) = after
                /\ \A i \in LocalInputs :
                       HandlePlayerInput(i)
                           => begin(handlePlayerInput(before, [i EXCEPT !.id = other(i.id)]))
                                  = after
                /\ \A i \in 1..MaxPlayers :
                       EngineActivateBoost(i)
                           => begin(activateBoost(before, other(i), now)) = after
                /\ \A i \in 1..MaxPlayers :
                       RemovePlayer(i) => begin(removePlayer(before, other(i))) = after]_vars

\* a tick in which one snake ran into the other, the owner of the segment
\* getting points for it
C25_Witness ==
    /\ \E n \in 1..Len(engine.events) :
           /\ engine.events[n].type = "playerKill"
           /\ engine.events[n].data.score > 0
    /\ \E k, m \in 1..Len(engine.snakes) : engine.snakes[k].score # engine.snakes[m].score

C27_MeterGainByFoodValue ==
    /\ \A n \in 1..Len(engine.eaten) :
           LET x == engine.eaten[n] IN
           IF x.value <= 2
           THEN x.handler = "food" /\ x.meterAfter = Min(100, x.meterBefore + 5)
           ELSE x.handler = "specialFood" /\ x.meterAfter = Min(100, x.meterBefore + 25)
    /\ Len(engine.eaten)
           = Cardinality({n \in 1..Len(engine.events) :
                             engine.events[n].type \in {"foodCollect", "specialFoodCollect"}})

\* C28: a snake of length L that dies in a tick is marked dead in that tick,
\* ceil(L / 5) foods and one food at its head are dropped for it (the foods
\* made in the tick are these and at most the one of the periodic spawn), and a
\* death event of the tick names it and carries its rank, its final score and
\* its final kill count.
C28_DeathDropsAndReports ==
    [][TickStep =>
          LET died == {k \in 1..Len(engine.snakes) :
                          engine.snakes[k].alive /\ ~engine'.snakes[k].alive}
              RECURSIVE dropped(_)
              dropped(S) ==
                  IF S = {} THEN 0
                  ELSE LET k == CHOOSE k \in S : TRUE
                       IN  (Len(engine'.snakes[k].segments) + 4) \div 5 + 1 + dropped(S \ {k})
          IN  /\ engine'.nextFoodId - engine.nextFoodId \in {dropped(died), dropped(died) + 1}
              /\ \A k \in died :
                     \E n \in 1..Len(engine'.events) :
                            LET ev == engine'.events[n] IN
                            /\ ev.type \in {"playerDeath", "playerDeathBorder"}
                            /\ ev.data.playerId = engine.snakes[k].id
                            /\ {"position", "score", "kills"} \subseteq DOMAIN ev.data
                            /\ ev.data.score = engine'.snakes[k].score
                            /\ ev.data.kills = engine'.snakes[k].kills]_vars

\* C29: a live snake whose head comes within the collision distance (20) of a
\* segment of another live snake that is not its head, and not of that head,
\* dies in that tick whatever the two lengths are, and the owner of the segment
\* gets floor(0.2 * the victim's score) points and exactly one kill (beside the
\* points of the food it eats in the tick).
C29_BodyHitKillsTheHead ==
    [][TickStep =>
          \A n \in 1..Len(engine'.hits) :
              LET h == engine'.hits[n]
                  RECURSIVE fed(_)
                  fed(m) ==
                      IF m = 0 THEN 0
                      ELSE fed(m - 1) + (IF engine'.eaten[m].snake = h.other
                                         THEN engine'.eaten[m].scoreGain ELSE 0)
              IN  (/\ h.j > 0
                   /\ h.snakeAlive
                   /\ \A m \in 1..Len(engine'.hits) :
                          (engine'.hits[m].other = h.other \/ engine'.hits[m].snake = h.other)
                              => m = n)
                      => /\ ~snakeOf(engine', h.snake).alive
                         /\ snakeOf(engine', h.other).kills = snakeOf(engine, h.other).kills + 1
                         /\ snakeOf(engine', h.other).score
                                = snakeOf(engine, h.other).score + fed(Len(engine'.eaten))
                                      + (snakeOf(engine', h.snake).score \div 5)]_vars

\* a tick in which a snake of 16 segments and score 6 ran into the body of a
\* snake of 10 segments, which got one point and one kill
C29_Witness ==
    \E n \in 1..Len(engine.hits) :
        /\ engine.hits[n].j > 0
        /\ engine.hits[n].snakeAlive
        /\ Len(engine.hits) = 1
        /\ engine.hits[n].snakeLength > engine.hits[n].otherLength + 2
        /\ snakeOf(engine, engine.hits[n].snake).score > 4
        /\ snakeOf(engine, engine.hits[n].other).kills = 1

\* C30: when two alive snakes collide head to head with lengths that differ by
\* at most 2, exactly one of the two dies in that tick, and it is the one the
\* rule of the code names: the snake whose head was being checked.
C30_NearEqualHeadsOneDies ==
    [][TickStep =>
          \A n \in 1..Len(engine'.hits) :
              LET h == engine'.hits[n] IN
              (/\ h.j = 0
               /\ h.snakeAlive
               /\ h.snakeLength <= h.otherLength + 2
               /\ h.otherLength <= h.snakeLength + 2)
                  => /\ ~snakeOf(engine', h.snake).alive
                     /\ snakeOf(engine', h.other).alive]_vars

RECURSIVE countFor(_, _, _, _)
countFor(events, type, id, n) ==
    IF n = 0 THEN 0
    ELSE countFor(events, type, id, n - 1)
             + (IF events[n].type = type /\ events[n].data.playerId = id THEN 1 ELSE 0)

\* the snake with the id is in the engine and boosting
boosting(id) ==
    \E k \in 1..Len(engine.snakes) : engine.snakes[k].id = id /\ engine.snakes[k].isBoosting

\* C32: a tick run when Date.now() has reached the end time of a boosting
\* snake leaves the snake not boosting, at its base speed, with an empty meter
\* (but for what it eats later in the tick), and emits one boostEnd for it; a
\* tick before that time, or for a snake not boosting, emits none and leaves
\* isBoosting as it is; no other step emits boostEnd; and a snake that is
\* boosting is, with update being called again, later not boosting or removed.
\* (Checked for the second GameEngine; in the first no snake is ever boosting.)
C32_BoostEndsAtEndTime ==
    /\ [][IF TickStep
          THEN \A k \in 1..Len(engine.snakes) :
                   LET old == engine.snakes[k]
                       new == engine'.snakes[k]
                       ends == countFor(engine'.events, "boostEnd", old.id, Len(engine'.events))
                   IN  IF old.isBoosting /\ now' >= old.boostEndTime
                       THEN /\ ~new.isBoosting
                            /\ new.speed = new.baseSpeed
                            /\ ends = 1
                            /\ (countFor(engine'.events, "foodCollect", old.id, Len(engine'.events))
                                  + countFor(engine'.events, "specialFoodCollect", old.id,
                                             Len(engine'.events)) = 0)
                                   => new.boostMeter = 0
                       ELSE /\ ends = 0
                            /\ new.isBoosting = old.isBoosting
          ELSE \A n \in 1..Len(engine'.events) : engine'.events[n].type # "boostEnd"]_vars
    /\ \A id \in 1..MaxPlayers : boosting(id) ~> ~boosting(id)

\* after the tick that ended the boost of a snake
C32_Witness ==
    \E k \in 1..Len(engine.snakes), n \in 1..Len(engine.events) :
        /\ engine.events[n].type = "boostEnd"
        /\ engine.events[n].data.playerId = engine.snakes[k].id
        /\ ~engine.snakes[k].isBoosting
        /\ engine.snakes[k].boostMeter = 0
        /\ engine.snakes[k].speed = engine.snakes[k].baseSpeed
        /\ engine.snakes[k].boostEndTime <= now

\* C33: addPlayer puts the head of the new snake at least 200 from the head of
\* every snake alive at the call and outside the border danger margin.
C33_SpawnAwayFromSnakes ==
    [][Len(engine'.snakes) = Len(engine.snakes) + 1 =>
          LET new == engine'.snakes[Len(engine'.snakes)] IN
          /\ ~isTooCloseToEdge(engine', new.segments[1])
          /\ \A k \in 1..Len(engine.snakes) :
                 engine.snakes[k].alive
                     => ~distanceLess(new.segments[1], engine.snakes[k].segments[1], 200)]_vars

\* C34: in a tick a snake that was alive, is not stopped at the border margin
\* and does not eat has afterwards its head at old head + direction * speed,
\* every other segment where its predecessor was, and as many segments as
\* before; the segments of a snake that was dead are not moved.  (This is the
\* movement of the claim for every snake that moves, among them the snakes
\* that die later in the tick: no snake outlives a tick.)
C34_MoveShiftsSegments ==
    [][TickStep =>
          \A k \in 1..Len(engine.snakes) :
              LET old == engine.snakes[k]
                  new == engine'.snakes[k]
              IN  /\ ~old.alive => new.segments = old.segments
                  /\ (/\ old.alive
                      /\ ~isTooCloseToEdge(engine, newHeadOf(old))
                      /\ \A m \in 1..Len(engine'.eaten) : engine'.eaten[m].snake # old.id)
                         => /\ Len(new.segments) = Len(old.segments)
                            /\ new.segments[1].x
                                   = old.segments[1].x + old.direction.x * old.speed
                            /\ new.segments[1].y
                                   = old.segments[1].y + old.direction.y * old.speed
                            /\ \A i \in 2..Len(new.segments) :
                                   new.segments[i] = old.segments[i - 1]]_vars

\* after a tick: a snake that moved left at speed 4 in it without eating (and
\* died in it)
C34_Witness ==
    \E k \in 1..Len(engine.snakes), n \in 1..Len(engine.events) :
        /\ engine.events[n].type = "playerDeath"
        /\ engine.events[n].data.playerId = engine.snakes[k].id
        /\ \A m \in 1..Len(engine.eaten) : engine.eaten[m].snake # engine.snakes[k].id
        /\ engine.snakes[k].direction.x < 0
        /\ engine.snakes[k].speed = 4
        /\ Len(engine.snakes[k].segments) = 10
        /\ engine.snakes[k].segments[1].x + 4 = engine.snakes[k].segments[2].x

\* the foods dropFoodFromSnake makes in a step for the snakes that die in it
droppedInStep ==
    LET died == {k \in 1..Len(engine.snakes) :
                     engine.snakes[k].alive /\ ~engine'.snakes[k].alive}
        RECURSIVE dropped(_)
        dropped(S) ==
            IF S = {} THEN 0
            ELSE LET k == CHOOSE k \in S : TRUE
                 IN  (Len(engine'.snakes[k].segments) + 4) \div 5 + 1 + dropped(S \ {k})
    IN  dropped(died)

\* the foods the step makes beside the dropped ones
spawnedInStep == (engine'.nextFoodId - engine.nextFoodId) - droppedInStep

\* C35: in a tick the timer makes exactly one food when the accumulated time
\* has reached FOOD_SPAWN_INTERVAL and there are fewer than FOOD_COUNT foods,
\* and none otherwise; and with the interval firing, a population below
\* FOOD_COUNT becomes FOOD_COUNT again unless food is eaten meanwhile (as far
\* as the firings of the run suffice: one food every second firing).
C35_TimerTopsUpFood ==
    /\ [][TickStep =>
             /\ spawnedInStep \in {0, 1}
             /\ spawnedInStep = 1
                   <=> /\ engine.foodSpawnCounter + (now' - now) >= FOOD_SPAWN_INTERVAL
                       /\ foodsLength(engine'.foods) - spawnedInStep < FOOD_COUNT]_vars
    /\ (/\ foodsLength(engine.foods) < FOOD_COUNT
        /\ now + 2 * (FOOD_COUNT - foodsLength(engine.foods)) * SERVER_TICK_RATE
               <= FoodTicks * SERVER_TICK_RATE)
           ~> (foodsLength(engine.foods) >= FOOD_COUNT \/ engine.eaten # <<>>)

\* after a firing in which the timer made the food that was missing
C35_Witness ==
    /\ foodsLength(engine.foods) = FOOD_COUNT
    /\ engine.foodSpawnCounter = 0
    /\ engine.ticksRun > 2
    /\ engine.events = <<>>
    /\ engine.nextFoodId > NearFoods + 4

\* C36: a snake that was alive and in a tick moves on in its direction, stays
\* clear of the border margin, eats nothing and comes within collision distance
\* of no other snake (nor any other snake of it) is alive after the tick.
C36_StraightLineSurvives ==
    [][TickStep =>
          \A k \in 1..Len(engine.snakes) :
              (/\ engine.snakes[k].alive
               /\ ~isTooCloseToEdge(engine, newHeadOf(engine.snakes[k]))
               /\ \A m \in 1..Len(engine'.eaten) :
                      engine'.eaten[m].snake # engine.snakes[k].id
               /\ \A n \in 1..Len(engine'.hits) :
                      /\ engine'.hits[n].snake # engine.snakes[k].id
                      /\ engine'.hits[n].other # engine.snakes[k].id)
                  => engine'.snakes[k].alive]_vars

\* the events of the given kind among the first n of a step, for which the
\* killer field (killedBy, 0 for null) is set
RECURSIVE killedByOther(_, _)
killedByOther(events, n) ==
    IF n = 0 THEN 0
    ELSE killedByOther(events, n - 1)
             + (IF events[n].type = "playerDeath" /\ events[n].data.killedBy # 0
                THEN 1 ELSE 0)

RECURSIVE countOfType(_, _, _)
countOfType(events, type, n) ==
    IF n = 0 THEN 0
    ELSE countOfType(events, type, n - 1) + (IF events[n].type = type THEN 1 ELSE 0)

RECURSIVE sumOfKills(_, _)
sumOfKills(snakes, n) ==
    IF n = 0 THEN 0 ELSE sumOfKills(snakes, n - 1) + snakes[n].kills

\* C37: in every tick the kill counts rise, in sum, by the number of deaths
\* caused by another snake, and as many playerKill events are emitted.
C37_KillsMatchDeaths ==
    [][TickStep =>
          /\ sumOfKills(engine'.snakes, Len(engine'.snakes))
                 - sumOfKills(engine.snakes, Len(engine.snakes))
                 = killedByOther(engine'.events, Len(engine'.events))
          /\ countOfType(engine'.events, "playerKill", Len(engine'.events))
                 = killedByOther(engine'.events, Len(engine'.events))]_vars

\* C38: no step changes the score, the kill count or the segments of a snake
\* that is dead (a step may only remove the snake), and once the death event of
\* a snake has been emitted in a tick no playerKill event of that tick names the
\* snake as the killer.
C38_DeadSnakeIsFrozen ==
    [][/\ \A k \in 1..Len(engine.snakes), j \in 1..Len(engine'.snakes) :
              (~engine.snakes[k].alive /\ engine'.snakes[j].id = engine.snakes[k].id)
                  => /\ engine'.snakes[j].score = engine.snakes[k].score
                     /\ engine'.snakes[j].kills = engine.snakes[k].kills
                     /\ engine'.snakes[j].segments = engine.snakes[k].segments
       /\ TickStep =>
              \A n, m \in 1..Len(engine'.events) :
                  (/\ n < m
                   /\ engine'.events[n].type \in {"playerDeath", "playerDeathBorder"}
                   /\ engine'.events[m].type = "playerKill")
                      => engine'.events[m].data.killerId # engine'.events[n].data.playerId]_vars

\* C39: in no step is more than one death event emitted for a snake or a death
\* event for a snake that was already dead, and the foods a tick makes are those
\* of one dropFoodFromSnake for each snake that dies in it and at most the one
\* of the timer; here for the second GameEngine of engine.ts.
C39_OneDeathPerSnake ==
    [][/\ \A n, m \in 1..Len(engine'.events) :
              (/\ n # m
               /\ engine'.events[n].type \in {"playerDeath", "playerDeathBorder"}
               /\ engine'.events[m].type \in {"playerDeath", "playerDeathBorder"})
                  => engine'.events[n].data.playerId # engine'.events[m].data.playerId
       /\ \A n \in 1..Len(engine'.events), k \in 1..Len(engine.snakes) :
              (/\ engine'.events[n].type \in {"playerDeath", "playerDeathBorder"}
               /\ engine'.events[n].data.playerId = engine.snakes[k].id)
                  => engine.snakes[k].alive
       /\ TickStep => engine'.nextFoodId - engine.nextFoodId <= droppedInStep + 1]_vars

\* C40: in every tick the head of every snake that is alive after the movement
\* of updateSnakes, and of every snake alive after the tick, lies at least
\* BORDER_DANGER_ZONE inside the map on both axes, and no playerDeathBorder
\* event of the kind killSnake emits (with the rank and the score) is emitted.
C40_AliveHeadsInsideMargin ==
    [][TickStep =>
          /\ \A r \in TickRnds :
                 LET snakes == updateSnakes(begin(engine), r, 1).snakes IN
                 \A k \in 1..Len(snakes) :
                     snakes[k].alive
                         => /\ snakes[k].segments[1].x >= BORDER_DANGER_ZONE
                            /\ snakes[k].segments[1].x <= engine.width - BORDER_DANGER_ZONE
                            /\ snakes[k].segments[1].y >= BORDER_DANGER_ZONE
                            /\ snakes[k].segments[1].y <= engine.height - BORDER_DANGER_ZONE
          /\ \A k \in 1..Len(engine'.snakes) :
                 engine'.snakes[k].alive
                     => /\ engine'.snakes[k].segments[1].x >= BORDER_DANGER_ZONE
                        /\ engine'.snakes[k].segments[1].x <= engine.width - BORDER_DANGER_ZONE
                        /\ engine'.snakes[k].segments[1].y >= BORDER_DANGER_ZONE
                        /\ engine'.snakes[k].segments[1].y <= engine.height - BORDER_DANGER_ZONE
          /\ \A n \in 1..Len(engine'.events) :
                 engine'.events[n].type = "playerDeathBorder"
                     => DOMAIN engine'.events[n].data = {"playerId"}]_vars

\* after a tick on the small map in which one snake was stopped at the margin
\* and another moved, stayed inside it and died of a collision
C40_Witness ==
    \E n, m \in 1..Len(engine.events) :
        /\ engine.events[n].type = "playerDeathBorder"
        /\ engine.events[m].type = "playerDeath"
        /\ \E k \in 1..Len(engine.snakes) :
               /\ engine.snakes[k].id = engine.events[m].data.playerId
               /\ engine.snakes[k].segments[1].x <= engine.width - BORDER_DANGER_ZONE
               /\ engine.snakes[k].segments[1].x >= BORDER_DANGER_ZONE

====
